---- MODULE Spec2Model ----
(***************************************************************************)
(* A model of the on-disk content-addressed cache of download-mirror       *)
(* (internal/cache/cache.go): the index and data files of every ID, the    *)
(* clock, and the calls Put, Get, GetFile, Size and Trim, each translated  *)
(* system call by system call so that calls of several goroutines          *)
(* interleave as they do on a file system.                                 *)
(*                                                                         *)
(* Time is counted in units of half an hour.  A byte of the model stands   *)
(* for one chunk of a transfer.  The clock handed to Open is time.Now      *)
(* (cache.go:68-70), so file-system mtimes and c.now() read one clock.     *)
(* copyFile's check of a file that is there (open, hash, close) is one     *)
(* step; every other step is one system call.  A directory is listed in    *)
(* the order of its names.  The keyed hash is a function that tells the    *)
(* contents of the model apart.                                            *)
(***************************************************************************)
EXTENDS Integers, Sequences, FiniteSets, TLC

VARIABLES
    files,   \* the cache directory: every file name to its file
    now,     \* the clock
    procs,   \* the call each goroutine is in, with its local variables
    ticks,   \* how many times the clock may still advance
    calls,   \* how many calls each goroutine may still start
    menu,    \* the calls, with their arguments, that callers make in this run
    first,   \* the cache directory as the run found it
    web,     \* the storage handler: its request, tasks, response and upstream
    sched,   \* the trim scheduler that NewStorage starts
    dir      \* the directory Open was given: what is there, and its buckets

vars == <<files, now, procs, ticks, calls, menu, first, web, sched, dir>>

----------------------------------------------------------------------------
(* Bounds of the model.                                                     *)

\* longest blob a caller puts
MaxLen == 2
\* width of an ID in bytes
HashSize == 2
\* how many times the clock advances during a sequential run, and while
\* goroutines run concurrently
MaxTicks == 2
ConcTicks == 1
\* how many times the clock advances, and how many calls are made, in a run
\* of calls made one after the other on a cache that starts empty
AgeTicks == 3
AgeCalls == 3
\* how many calls each goroutine starts when goroutines run concurrently
MaxCalls == 1
\* how many calls the single goroutine of a sequential run starts
SeqCalls == 1

\* the bytes a file may hold, and the bytes of the blobs callers put
Bytes == {0, 1}
PutBytes == {1}
Procs == {1, 2}

----------------------------------------------------------------------------
(* Program constants (cache.go:28-36), in half hours.                       *)

mtimeInterval == 2
trimLimit == 240
FieldWidth == 20

hexSize == HashSize * 2
entrySize == 2 + 1 + hexSize + 1 + FieldWidth + 1 + FieldWidth + 1

----------------------------------------------------------------------------
(* Blobs and the keyed hash.                                                *)

SeqsUpTo(S, n) == UNION {[1..k -> S] : k \in 0..n}

Blobs == SeqsUpTo(PutBytes, MaxLen)

RECURSIVE Pow(_, _)
Pow(b, e) == IF e = 0 THEN 1 ELSE b * Pow(b, e - 1)

\* A fresh hasher, the effect of writing one byte to it, and its digest.
\* The digest is injective on the blobs of the model.
Build == 0
HashWrite(h, byte) == h * 3 + byte + 1
Sum(h) == (h * 67) % Pow(256, HashSize)

RECURSIVE HashAll(_, _)
HashAll(h, s) == IF s = <<>> THEN h ELSE HashAll(HashWrite(h, Head(s)), Tail(s))

Hash(b) == Sum(HashAll(Build, b))

IDs == {Hash(b) : b \in Blobs}

FirstByte(id) == id \div Pow(256, HashSize - 1)

----------------------------------------------------------------------------
(* Text: a string of the program is a sequence of one-character strings.    *)

Digits == <<"0", "1", "2", "3", "4", "5", "6", "7", "8", "9">>
HexDigits == Digits \o <<"a", "b", "c", "d", "e", "f">>
UpperHex == <<"A", "B", "C", "D", "E", "F">>

RECURSIVE Spaces(_)
Spaces(n) == IF n <= 0 THEN <<>> ELSE <<" ">> \o Spaces(n - 1)

\* fmt "%d" of a value n >= 0
RECURSIVE Dec(_)
Dec(n) == IF n < 10 THEN <<Digits[n + 1]>> ELSE Dec(n \div 10) \o <<Digits[(n % 10) + 1]>>

\* fmt "%20d": right-justified, space-padded, never cut
Pad(s) == Spaces(FieldWidth - Len(s)) \o s

FmtInt(n) == IF n < 0 THEN Pad(<<"-">> \o Dec(0 - n)) ELSE Pad(Dec(n))

\* fmt "%x" / "%02x" of the bytes of an ID
RECURSIVE HexN(_, _)
HexN(v, digits) ==
    IF digits = 0 THEN <<>>
    ELSE HexN(v \div 16, digits - 1) \o <<HexDigits[(v % 16) + 1]>>

HexID(id) == HexN(id, hexSize)

HexVal(c) ==
    IF \E i \in 1..16 : HexDigits[i] = c
    THEN (CHOOSE i \in 1..16 : HexDigits[i] = c) - 1
    ELSE IF \E i \in 1..6 : UpperHex[i] = c
    THEN (CHOOSE i \in 1..6 : UpperHex[i] = c) + 9
    ELSE -1

\* encoding/hex.Decode: [ok, val]
RECURSIVE HexDecodeFrom(_, _)
HexDecodeFrom(acc, s) ==
    IF s = <<>> THEN [ok |-> TRUE, val |-> acc]
    ELSE IF HexVal(Head(s)) < 0 THEN [ok |-> FALSE, val |-> 0]
    ELSE HexDecodeFrom(acc * 16 + HexVal(Head(s)), Tail(s))

HexDecode(s) == HexDecodeFrom(0, s)

IsDigit(c) == \E i \in 1..10 : Digits[i] = c
DigitVal(c) == (CHOOSE i \in 1..10 : Digits[i] = c) - 1

RECURSIVE StripZeros(_)
StripZeros(s) == IF Len(s) > 1 /\ Head(s) = "0" THEN StripZeros(Tail(s)) ELSE s

RECURSIVE LexLess(_, _)
LexLess(s, t) ==
    IF s = <<>> THEN FALSE
    ELSE IF DigitVal(Head(s)) # DigitVal(Head(t)) THEN DigitVal(Head(s)) < DigitVal(Head(t))
    ELSE LexLess(Tail(s), Tail(t))

\* the digits of 1<<63 - 1 and of 1<<63
MaxInt64 == <<"9","2","2","3","3","7","2","0","3","6","8","5","4","7","7","5","8","0","7">>
MinInt64 == <<"9","2","2","3","3","7","2","0","3","6","8","5","4","7","7","5","8","0","8">>

\* does a string of digits exceed the digits lim (of equal or smaller value range)
Exceeds(ds, lim) ==
    LET s == StripZeros(ds)
    IN  \/ Len(s) > Len(lim)
        \/ Len(s) = Len(lim) /\ LexLess(lim, s)

RECURSIVE DigitsVal(_, _)
DigitsVal(acc, s) == IF s = <<>> THEN acc ELSE DigitsVal(acc * 10 + DigitVal(Head(s)), Tail(s))

\* strconv.ParseInt(s, 10, 64): [ok, val]
ParseInt(s) ==
    LET neg == s # <<>> /\ Head(s) = "-"
        signed == s # <<>> /\ Head(s) \in {"+", "-"}
        ds == IF signed THEN Tail(s) ELSE s
    IN  IF ds = <<>> \/ \E i \in 1..Len(ds) : ~IsDigit(ds[i])
        THEN [ok |-> FALSE, val |-> 0]
        ELSE IF Exceeds(ds, IF neg THEN MinInt64 ELSE MaxInt64)
        THEN [ok |-> FALSE, val |-> 0]
        ELSE [ok |-> TRUE,
              val |-> IF neg THEN 0 - DigitsVal(0, StripZeros(ds))
                      ELSE DigitsVal(0, StripZeros(ds))]

RECURSIVE SkipSpaces(_)
SkipSpaces(s) == IF s # <<>> /\ Head(s) = " " THEN SkipSpaces(Tail(s)) ELSE s

----------------------------------------------------------------------------
(* The index record.                                                        *)

\* putIndexEntry's fmt.Sprintf("v1 %x %20d %20d\n", id, size, unixnano)
IndexRecord(id, size, tm) ==
    <<"v", "1", " ">> \o HexID(id) \o <<" ">> \o FmtInt(size) \o <<" ">> \o FmtInt(tm) \o <<"\n">>

NoEntry == [Size |-> -1, Time |-> -1]

\* a header check that leaves out the final newline
invalidHeader_noNewline(content) ==
    \/ content[1] # "v" \/ content[2] # "1" \/ content[3] # " "
    \/ content[3 + hexSize + 1] # " "
    \/ content[3 + hexSize + 1 + FieldWidth + 1] # " "

\* the bytes around the three fields
invalidHeader(content) ==
    \/ content[1] # "v" \/ content[2] # "1" \/ content[3] # " "
    \/ content[3 + hexSize + 1] # " "
    \/ content[3 + hexSize + 1 + FieldWidth + 1] # " "
    \/ content[entrySize] # "\n"

\* The parse of getIndexEntry, applied to what os.Open and io.ReadFull
\* deliver of a file's content: [ok, entry, reason].
ParseIndex(content, id) ==
    LET n == IF Len(content) > entrySize THEN entrySize + 1 ELSE Len(content)
        missing(reason) == [ok |-> FALSE, entry |-> NoEntry, reason |-> reason]
    IN  IF n > entrySize THEN missing("too long")
        ELSE IF n = 0 THEN missing("file is empty")
        ELSE IF n < entrySize THEN missing("entry file incomplete")
        ELSE IF invalidHeader(content) THEN missing("invalid header")
        ELSE
            LET eid == SubSeq(content, 4, 3 + hexSize)
                esize == SubSeq(content, 3 + hexSize + 2, 3 + hexSize + 1 + FieldWidth)
                etime == SubSeq(content, 3 + hexSize + 1 + FieldWidth + 2,
                                3 + hexSize + 1 + FieldWidth + 1 + FieldWidth)
                buf == HexDecode(eid)
                size == ParseInt(SkipSpaces(esize))
                tm == ParseInt(SkipSpaces(etime))
            IN  IF ~buf.ok THEN missing("decoding ID")
                ELSE IF buf.val # id THEN missing("mismatched ID")
                ELSE IF ~size.ok THEN missing("parsing size")
                ELSE IF size.val < 0 THEN missing("negative size")
                ELSE IF ~tm.ok THEN missing("parsing timestamp")
                ELSE IF tm.val < 0 THEN missing("negative timestamp")
                ELSE [ok |-> TRUE, entry |-> [Size |-> size.val, Time |-> tm.val],
                      reason |-> ""]

----------------------------------------------------------------------------
(* The cache directory.                                                     *)

Keys == {"a", "d"}

\* a fileName that puts the file next to the buckets
fileName_root(id, key) == <<256, id, key>>

\* fileName: dir/XX/<hex id>-<key>, XX the hex of the ID's first byte
fileName(id, key) == <<FirstByte(id), id, key>>

Names == {fileName(id, key) : id \in IDs, key \in Keys}
Buckets == {FirstByte(id) : id \in IDs}

\* A file: gen counts the creations of the name, so that a handle opened on
\* one creation of a name does not reach a later file of that name.
NoFile(gen) == [exists |-> FALSE, content |-> <<>>, mtime |-> 0, gen |-> gen]

NameLess(x, y) ==
    \/ x[1] < y[1]
    \/ x[1] = y[1] /\ x[2] < y[2]
    \/ x[1] = y[1] /\ x[2] = y[2] /\ x[3] = "a" /\ y[3] = "d"

RECURSIVE SortNames(_)
SortNames(S) ==
    IF S = {} THEN <<>>
    ELSE LET m == CHOOSE x \in S : \A y \in S \ {x} : NameLess(x, y)
         IN  <<m>> \o SortNames(S \ {m})

RECURSIVE SortInts(_)
SortInts(S) ==
    IF S = {} THEN <<>>
    ELSE LET m == CHOOSE x \in S : \A y \in S : x <= y
         IN  <<m>> \o SortInts(S \ {m})

\* f.Readdirnames(-1) of a bucket, and the bucket list of a walk
ReadDir(f, bucket) == SortNames({nm \in DOMAIN f : nm[1] = bucket /\ f[nm].exists})
BucketList == SortInts(Buckets)

\* a write of bytes at an offset: a gap left by a truncation reads as zeros
RECURSIVE Zeros(_)
Zeros(n) == IF n <= 0 THEN <<>> ELSE <<0>> \o Zeros(n - 1)

WriteAt(content, off, data) ==
    LET base == IF Len(content) < off THEN content \o Zeros(off - Len(content)) ELSE content
    IN  SubSeq(base, 1, off) \o data \o SubSeq(base, off + Len(data) + 1, Len(base))

\* operations through an open handle (name, gen) reach the file only while
\* the name still refers to the file that was opened
Reaches(f, nm, fd) == f[nm].exists /\ f[nm].gen = fd

FWrite(f, nm, fd, off, data, t) ==
    IF Reaches(f, nm, fd)
    THEN [f EXCEPT ![nm].content = WriteAt(f[nm].content, off, data), ![nm].mtime = t]
    ELSE f

FTruncate(f, nm, fd, len, t) ==
    IF Reaches(f, nm, fd) /\ Len(f[nm].content) # len
    THEN [f EXCEPT ![nm].content = SubSeq(WriteAt(f[nm].content, len, <<>>), 1, len),
                   ![nm].mtime = t]
    ELSE f

\* os.OpenFile(name, O_CREATE [| O_TRUNC]): the directory after it
OpenCreate(f, nm, trunc, t) ==
    IF ~f[nm].exists
    THEN [f EXCEPT ![nm] = [exists |-> TRUE, content |-> <<>>, mtime |-> t, gen |-> f[nm].gen + 1]]
    ELSE IF trunc /\ f[nm].content # <<>>
    THEN [f EXCEPT ![nm].content = <<>>, ![nm].mtime = t]
    ELSE f

\* a Chtimes that changes nothing
Chtimes_keep(f, nm, t) == f

Chtimes(f, nm, t) == [f EXCEPT ![nm].mtime = t]

Remove(f, nm) == IF f[nm].exists THEN [f EXCEPT ![nm] = NoFile(f[nm].gen)] ELSE f

----------------------------------------------------------------------------
(* Errors.                                                                  *)

Nil == ""
\* getIndexEntry's missing(...), and a system call on a name that is absent
ErrMissing == "missing"
ENOENT == "ENOENT"
\* a system call of copyFile that fails
ErrIO == "input/output error"
ErrIncomplete == "file incomplete"
ErrChanged == "file content changed"
ErrEOF == "EOF"

\* errors.Is(err, os.ErrNotExist)
IsNotExist(err) == err \in {ErrMissing, ENOENT}

----------------------------------------------------------------------------
(* A goroutine: the call it executes, where it is in it, and its locals.    *)

Idle ==
    [op |-> "none", pc |-> "idle",
     blob |-> <<>>, blob2 |-> <<>>,       \* Put: the source, as the two passes read it
     fault |-> "none",                    \* Put: the step of copyFile that fails, if one does
     id |-> 0, size |-> 0,
     n |-> 0, h |-> Build, fd |-> 0, trunc |-> FALSE, tm |-> 0,
     entry |-> NoEntry, uname |-> <<>>,
     maxBytes |-> 0, maxAge |-> 0, tnow |-> 0, stm |-> 0,
     dirs |-> <<>>, todo |-> <<>>, total |-> 0,
     err |-> Nil,
     path |-> <<>>, seen |-> <<>>,        \* GetFile: the name returned, and what it holds
     pre |-> <<>>,                        \* the directory when the call started
     rm |-> {}]                           \* Trim: the files removed, as they were

\* the call returns: its results stay, its locals are gone
Done(p, err) ==
    [Idle EXCEPT !.op = p.op, !.pc = "done", !.blob = p.blob, !.blob2 = p.blob2,
                 !.fault = p.fault,
                 !.id = p.id, !.size = p.size, !.entry = p.entry, !.maxBytes = p.maxBytes,
                 !.maxAge = p.maxAge, !.tnow = p.tnow, !.total = p.total,
                 !.path = p.path, !.seen = p.seen,
                 !.pre = p.pre, !.rm = p.rm, !.err = err]

At(f, p) == [f |-> f, p |-> p]

----------------------------------------------------------------------------
(* Put = hash pass, copyFile, putIndexEntry (cache.go:177-198).             *)

\* Put's first pass over the source: the ID and the size
CallPut(b, b2) ==
    [Idle EXCEPT !.op = "Put", !.pc = "cf_stat", !.blob = b, !.blob2 = b2,
                 !.id = Hash(b), !.size = Len(b)]

\* a copyFile that takes a file of the right size for the blob
sameHash_sizeOnly(file, id) == file.exists

\* a copyFile that compares the hash of whatever file is there
sameSize_any(file, size) == file.exists

\* the file that is there has the size and the hash of the blob
sameSize(file, size) == file.exists /\ Len(file.content) = size

sameHash(file, id) == file.exists /\ Hash(file.content) = id

\* O_TRUNC whenever there is a file
truncMode_always(file, size) == file.exists

\* O_TRUNC is added when the file that is there is longer than the blob
truncMode(file, size) == file.exists /\ Len(file.content) > size

\* a copyFile that commits the last byte whatever the digest is
digestOK_always(h, c, id) == TRUE

\* bytes.Equal(sum, out[:]), the last byte hashed and not yet written
digestOK(h, c, id) == Sum(HashWrite(h, c)) = id

copyFile(f, p, t) ==
    LET name == fileName(p.id, "d")
        file == f[name]
        fail(ff, err) == At(FTruncate(ff, name, p.fd, 0, t), Done(p, err))
    IN  CASE p.pc = "cf_stat" ->
               IF sameSize(file, p.size)
               THEN At(f, [p EXCEPT !.pc = "cf_check"])
               ELSE At(f, [p EXCEPT !.pc = "cf_open", !.trunc = truncMode(file, p.size)])
          [] p.pc = "cf_check" ->
               \* open the file that is there and compare its hash
               IF sameHash(file, p.id)
               THEN At(f, [p EXCEPT !.pc = "pi_open"])
               ELSE At(f, [p EXCEPT !.pc = "cf_open", !.trunc = FALSE])
          [] p.pc = "cf_open" ->
               LET g == OpenCreate(f, name, p.trunc, t)
               IN  IF p.fault = "open"
                   THEN At(f, Done(p, ErrIO))
                   ELSE IF p.size = 0
                   THEN At(g, [p EXCEPT !.pc = "pi_open"])
                   ELSE IF p.fault = "seek"
                   THEN At(FTruncate(g, name, g[name].gen, 0, t), Done(p, ErrIO))
                   ELSE At(g, [p EXCEPT !.fd = g[name].gen, !.n = 0, !.h = Build,
                                        !.pc = IF p.size = 1 THEN "cf_last" ELSE "cf_copy"])
          [] p.pc = "cf_copy" ->
               \* io.CopyN(w, file, size-1), one chunk
               IF p.fault = "copy"
               THEN fail(f, ErrIO)
               ELSE IF p.n >= Len(p.blob2)
               THEN fail(f, ErrEOF)
               ELSE LET c == p.blob2[p.n + 1]
                    IN  At(FWrite(f, name, p.fd, p.n, <<c>>, t),
                           [p EXCEPT !.n = p.n + 1, !.h = HashWrite(p.h, c),
                                     !.pc = IF p.n + 1 = p.size - 1 THEN "cf_last" ELSE "cf_copy"])
          [] p.pc = "cf_last" ->
               \* the last byte is checked before it is written
               IF p.fault = "read"
               THEN fail(f, ErrIO)
               ELSE IF p.n >= Len(p.blob2)
               THEN fail(f, ErrEOF)
               ELSE LET c == p.blob2[p.n + 1]
                        g == FWrite(f, name, p.fd, p.n, <<c>>, t)
                    IN  IF ~digestOK(p.h, c, p.id)
                        THEN fail(f, ErrChanged)
                        ELSE IF p.fault = "write"
                        THEN fail(f, ErrIO)
                        ELSE IF p.fault = "close"
                        THEN At(Remove(g, name), Done(p, ErrIO))
                        ELSE At(g, [p EXCEPT !.n = p.n + 1, !.pc = "cf_chtimes"])
          [] p.pc = "cf_chtimes" ->
               IF p.fault = "chtimes"
               THEN At(f, Done(p, ErrIO))
               ELSE IF file.exists
               THEN At(Chtimes(f, name, t), [p EXCEPT !.pc = "pi_open", !.fd = 0])
               ELSE At(f, Done(p, ENOENT))

\* an index file opened with O_APPEND
writeEntry_append(f, name, fd, entry, t) ==
    FWrite(f, name, fd, Len(f[name].content), entry, t)

\* f.WriteString(entry) on a file opened O_WRONLY|O_CREATE: at offset 0
writeEntry(f, name, fd, entry, t) == FWrite(f, name, fd, 0, entry, t)

putIndexEntry(f, p, t) ==
    LET name == fileName(p.id, "a")
        entry == IndexRecord(p.id, p.size, p.tm)
    IN  CASE p.pc = "pi_open" ->
               LET g == OpenCreate(f, name, FALSE, t)
               IN  At(g, [p EXCEPT !.tm = t, !.fd = g[name].gen, !.pc = "pi_write"])
          [] p.pc = "pi_write" ->
               At(writeEntry(f, name, p.fd, entry, t), [p EXCEPT !.pc = "pi_trunc"])
          [] p.pc = "pi_trunc" ->
               At(FTruncate(f, name, p.fd, Len(entry), t), [p EXCEPT !.pc = "pi_chtimes"])
          [] p.pc = "pi_chtimes" ->
               IF f[name].exists
               THEN At(Chtimes(f, name, t), Done(p, Nil))
               ELSE At(f, Done(p, ENOENT))

Put(f, p, t) ==
    IF p.pc \in {"pi_open", "pi_write", "pi_trunc", "pi_chtimes"}
    THEN putIndexEntry(f, p, t)
    ELSE copyFile(f, p, t)

----------------------------------------------------------------------------
(* Get and GetFile (cache.go:82-175, 427-446).                              *)

CallGet(id) == [Idle EXCEPT !.op = "Get", !.pc = "gi_read", !.id = id]
CallGetFile(id) == [Idle EXCEPT !.op = "GetFile", !.pc = "gi_read", !.id = id]

\* getIndexEntry: [ok, entry, reason]
getIndexEntry(f, id) ==
    LET file == f[fileName(id, "a")]
    IN  IF ~file.exists
        THEN [ok |-> FALSE, entry |-> NoEntry, reason |-> "open"]
        ELSE ParseIndex(file.content, id)

\* what the caller of used(p.uname) does with the error it returns
AfterUsed(f, p, err) ==
    IF p.uname[3] = "a"
    THEN IF p.op = "Get" THEN At(f, Done(p, err))
         ELSE IF err # Nil THEN At(f, Done([p EXCEPT !.entry = NoEntry], err))
         ELSE At(f, [p EXCEPT !.uname = fileName(p.id, "d"), !.pc = "u_stat"])
    ELSE IF err # Nil THEN At(f, Done([p EXCEPT !.entry = NoEntry], err))
         ELSE At(f, [p EXCEPT !.pc = "gf_stat"])

\* a used that leaves the mtime of any file that exists alone
recent_always(file, t) == file.exists

\* the mtime is recent enough to be left alone
recent(file, t) == file.exists /\ t - file.mtime < mtimeInterval

\* tnow is the c.now() that used compares the mtime with
used(f, p, t) ==
    LET file == f[p.uname]
    IN  CASE p.pc = "u_stat" ->
               IF recent(file, t)
               THEN AfterUsed(f, [p EXCEPT !.tnow = t], Nil)
               ELSE At(f, [p EXCEPT !.tnow = t, !.pc = "u_chtimes"])
          [] p.pc = "u_chtimes" ->
               IF file.exists
               THEN AfterUsed(Chtimes(f, p.uname, t), p, Nil)
               ELSE AfterUsed(f, p, ENOENT)

Get(f, p, t) ==
    IF p.pc = "gi_read"
    THEN LET r == getIndexEntry(f, p.id)
         IN  IF ~r.ok THEN At(f, Done(p, ErrMissing))
             ELSE At(f, [p EXCEPT !.entry = r.entry, !.uname = fileName(p.id, "a"),
                                  !.pc = "u_stat"])
    ELSE used(f, p, t)

\* a GetFile that does not compare the sizes
incomplete_never(file, entry) == FALSE

\* info.Size() != entry.Size
incomplete(file, entry) == Len(file.content) # entry.Size

GetFile(f, p, t) ==
    IF p.pc = "gf_stat"
    THEN LET file == f[fileName(p.id, "d")]
         IN  IF ~file.exists THEN At(f, Done([p EXCEPT !.entry = NoEntry], ENOENT))
             ELSE IF incomplete(file, p.entry)
             THEN At(f, Done([p EXCEPT !.entry = NoEntry], ErrIncomplete))
             ELSE At(f, Done([p EXCEPT !.path = fileName(p.id, "d"),
                                       !.seen = file.content], Nil))
    ELSE Get(f, p, t)

----------------------------------------------------------------------------
(* Size and Trim (cache.go:201-309).                                        *)

CallSize == [Idle EXCEPT !.op = "Size", !.pc = "sz_dir", !.dirs = BucketList]
CallTrim(maxBytes, t) ==
    [Idle EXCEPT !.op = "Trim", !.pc = "t_dir", !.maxBytes = maxBytes,
                 !.maxAge = trimLimit, !.tnow = t, !.dirs = BucketList]

\* a cutoff without the allowance for the imprecision of the mtimes
cutoff_noInterval(p) == p.tnow - p.maxAge

cutoff(p) == p.tnow - p.maxAge - mtimeInterval

\* a sweep that looks at the data files only
isEntry_dataOnly(nm) == nm[3] = "d"

\* a name the sweep looks at, and a file it removes
isEntry(nm) == nm[3] \in {"a", "d"}

\* a sweep that removes every file it finds
expired_any(file, p) == file.exists

\* os.Stat succeeded and info.ModTime().Before(cutoff)
expired(file, p) == file.exists /\ file.mtime < cutoff(p)

\* a halving that rounds down once more
halve_less(maxAge) == maxAge \div 2 - 1

\* maxAge /= 2
halve(maxAge) == maxAge \div 2

\* a Trim that returns after its first sweep, whatever Size has returned
TrimCheck_once(p) == Done([p EXCEPT !.total = 0], Nil)

\* Trim, once Size has returned without error
TrimCheck(p) ==
    IF p.total > p.maxBytes
    THEN [p EXCEPT !.maxAge = halve(p.maxAge), !.pc = "t_dir", !.dirs = BucketList,
                   !.total = 0]
    ELSE Done([p EXCEPT !.total = 0], Nil)

\* the walk of Size goes on to the next name, the next bucket, or ends
SizeNext(p) ==
    IF p.todo # <<>> THEN [p EXCEPT !.pc = "sz_lstat"]
    ELSE IF p.dirs # <<>> THEN [p EXCEPT !.pc = "sz_dir"]
    ELSE IF p.op = "Trim" THEN TrimCheck(p)
    ELSE Done(p, Nil)

\* size += entry.Size, unless getIndexEntry failed
addEntry(p, r) ==
    [p EXCEPT !.todo = Tail(p.todo), !.total = IF r.ok THEN p.total + r.entry.Size ELSE p.total]

\* Names in a bucket that end in -a and are not the hex of an ID: one with
\* letters that are no hex digits, one of odd length.  In the directory they
\* are <<bucket, -k, "a">>.
StrayText == << <<"z", "z", "z", "z">>, <<"0", "0", "0">> >>

\* strings.TrimSuffix(filepath.Base(path), "-a")
baseName(nm) == IF nm[2] >= 0 THEN HexID(nm[2]) ELSE StrayText[0 - nm[2]]

ErrHex == "encoding/hex: invalid byte or odd length"

\* hex.Decode(id[:], eid): [ok, id]
decodeName(eid) ==
    LET r == HexDecode(eid)
    IN  [ok |-> r.ok /\ Len(eid) % 2 = 0, id |-> r.val]

Size(f, p) ==
    CASE p.pc = "sz_dir" ->
           At(f, SizeNext([p EXCEPT !.todo = ReadDir(f, Head(p.dirs)), !.dirs = Tail(p.dirs)]))
      [] p.pc = "sz_lstat" ->
           LET nm == Head(p.todo)
           IN  IF ~f[nm].exists THEN At(f, Done(p, ENOENT))
               ELSE IF nm[3] = "a"
               THEN IF decodeName(baseName(nm)).ok
                    THEN At(f, [p EXCEPT !.pc = "sz_read"])
                    ELSE At(f, Done(p, ErrHex))
               ELSE At(f, SizeNext([p EXCEPT !.todo = Tail(p.todo)]))
      [] p.pc = "sz_read" ->
           At(f, CHOOSE q \in {SizeNext(addEntry(p, r)) :
                     r \in {getIndexEntry(f, d.id) :
                               d \in {decodeName(baseName(Head(p.todo)))}}} : TRUE)

\* the sweep goes on to the next name, the next bucket, or ends
TrimNext(p) ==
    IF p.todo # <<>> THEN [p EXCEPT !.pc = "t_stat"]
    ELSE IF p.dirs # <<>> THEN [p EXCEPT !.pc = "t_dir"]
    ELSE IF p.maxBytes = 0 THEN Done(p, Nil)
    ELSE [p EXCEPT !.pc = "sz_dir", !.dirs = BucketList, !.total = 0]

trimSubdir(f, p) ==
    CASE p.pc = "t_dir" ->
           At(f, TrimNext([p EXCEPT !.todo = ReadDir(f, Head(p.dirs)), !.dirs = Tail(p.dirs)]))
      [] p.pc = "t_stat" ->
           LET file == f[Head(p.todo)]
           IN  IF isEntry(Head(p.todo)) /\ expired(file, p)
               THEN At(f, [p EXCEPT !.pc = "t_remove", !.stm = file.mtime])
               ELSE At(f, TrimNext([p EXCEPT !.todo = Tail(p.todo)]))
      [] p.pc = "t_remove" ->
           LET nm == Head(p.todo)
               gone == IF f[nm].exists
                       THEN {[name |-> nm, stat |-> p.stm, mtime |-> f[nm].mtime,
                              maxAge |-> p.maxAge,
                              data |-> IF nm[2] >= 0 THEN f[fileName(nm[2], "d")]
                                       ELSE NoFile(0)]}
                       ELSE {}
           IN  At(Remove(f, nm),
                  TrimNext([p EXCEPT !.todo = Tail(p.todo), !.stm = 0, !.rm = p.rm \cup gone]))

Trim(f, p) ==
    IF p.pc \in {"sz_dir", "sz_lstat", "sz_read"} THEN Size(f, p) ELSE trimSubdir(f, p)

----------------------------------------------------------------------------
(* One system call of a goroutine, and a call run to its return.            *)

Step(f, p, t) ==
    CASE p.op = "Put" -> Put(f, p, t)
      [] p.op = "Get" -> Get(f, p, t)
      [] p.op = "GetFile" -> GetFile(f, p, t)
      [] p.op = "Size" -> Size(f, p)
      [] p.op = "Trim" -> Trim(f, p)

Running(p) == p.pc \notin {"idle", "done"}

\* a call run without interruption, at most k system calls
RECURSIVE Run(_, _, _, _)
Run(f, p, t, k) ==
    IF ~Running(p) \/ k = 0 THEN At(f, p)
    ELSE CHOOSE q \in {Run(r.f, r.p, t, k - 1) : r \in {Step(f, p, t)}} : TRUE

----------------------------------------------------------------------------
(* States of the cache directory a run starts from.                         *)

\* no handler: the cache is called directly
NoWeb == [pc |-> "none"]

\* no scheduler: the cache is used without NewStorage
NoSched == [pc |-> "none"]

\* Open makes the buckets 00..ff
bucketCount == 256
OpenBuckets == 0..(bucketCount - 1)

\* the system calls of copyFile once the data file has to be written
Faults == {"open", "seek", "copy", "read", "write", "close", "chtimes"}

\* what the copy pass may read of a source that the hashing pass read as b:
\* a byte changed, the end missing, a byte more
Changed(b) ==
    {[b EXCEPT ![i] = 1 - b[i]] : i \in 1..Len(b)}
        \cup {SubSeq(b, 1, k) : k \in 0..(Len(b) - 1)} \cup {b \o <<0>>}

\* the directory of a cache that Open has returned
Opened == [kind |-> "dir", buckets |-> OpenBuckets, tried |-> TRUE, cache |-> TRUE, err |-> Nil]

EmptyDir == [nm \in Names |-> NoFile(0)]

MkFile(content, mtime) == [exists |-> TRUE, content |-> content, mtime |-> mtime, gen |-> 1]

Set(s, i, c) == [s EXCEPT ![i] = c]
SizeAt == 3 + hexSize + 1
TimeAt == SizeAt + FieldWidth + 1

\* index contents that deviate from the record of id
DamagedIndex(id, size) ==
    LET good == IndexRecord(id, size, 0)
        other == CHOOSE x \in IDs : x # id
    IN  { <<>>,
          SubSeq(good, 1, entrySize - 1),
          SubSeq(good, 1, 3),
          good \o <<"\n">>,
          good \o good,
          Set(good, 1, "x"), Set(good, 2, "2"),
          Set(good, 3, "_"), Set(good, SizeAt, "_"), Set(good, TimeAt, "_"),
          Set(good, entrySize, " "),
          Set(good, SizeAt + FieldWidth, "x"),
          Set(good, SizeAt + FieldWidth, " "),
          Set(good, TimeAt + FieldWidth, "x"),
          SubSeq(good, 1, SizeAt) \o Spaces(FieldWidth) \o SubSeq(good, TimeAt, entrySize),
          SubSeq(good, 1, SizeAt) \o [i \in 1..FieldWidth |-> "9"] \o SubSeq(good, TimeAt, entrySize),
          SubSeq(good, 1, TimeAt) \o [i \in 1..FieldWidth |-> "9"] \o <<"\n">>,
          IndexRecord(id, 0 - 1, 0),
          IndexRecord(id, size, 0 - 1),
          IndexRecord(other, size, 0),
          Set(good, 4, "g") }

\* index contents that the format string does not produce and that name id
UnusualIndex(id, size) ==
    LET good == IndexRecord(id, size, 0)
    IN  { Set(good, SizeAt + FieldWidth - 1, "+"),
          Set(good, SizeAt + FieldWidth - 1, "0"),
          SubSeq(good, 1, 3) \o [i \in 1..hexSize |->
                IF HexVal(good[3 + i]) > 9 THEN UpperHex[HexVal(good[3 + i]) - 9] ELSE good[3 + i]]
              \o SubSeq(good, SizeAt, entrySize) }

\* the blob whose entry a run finds on disk, in whatever state
Target == <<1, 1>>
Flip(b) == [i \in 1..Len(b) |-> 1 - b[i]]

\* data file contents: shorter, equal, of equal length and different, longer
DataContents(b) ==
    {SubSeq(b, 1, k) : k \in 0..Len(b)} \cup {Flip(b), b \o <<0>>, Flip(b) \o <<1>>}

IndexContents(b) ==
    {IndexRecord(Hash(b), n, 0) : n \in 0..(Len(b) + 1)}
        \cup DamagedIndex(Hash(b), Len(b)) \cup UnusualIndex(Hash(b), Len(b))

\* a call and its argument
Arg(op, blob, id, maxBytes) == [op |-> op, blob |-> blob, id |-> id, maxBytes |-> maxBytes]

Calls(blobs, ids, trimBytes) ==
    {Arg("Put", b, 0, 0) : b \in blobs}
        \cup {Arg("Get", <<>>, id, 0) : id \in ids}
        \cup {Arg("GetFile", <<>>, id, 0) : id \in ids}
        \cup {Arg("Size", <<>>, 0, 0)}
        \cup {Arg("Trim", <<>>, 0, m) : m \in trimBytes}

TypeOK ==
    /\ now \in Nat /\ ticks \in 0..(MaxTicks + ConcTicks + AgeTicks)
    /\ \A nm \in Names : files[nm].exists \in BOOLEAN
    /\ \A p \in Procs : calls[p] \in Nat

\* the entry a Put of b at time t leaves
EntryOf(nm, b, t) ==
    IF nm[3] = "a" THEN MkFile(IndexRecord(Hash(b), Len(b), t), t) ELSE MkFile(b, t)

\* goroutines running concurrently on a cache that is empty or holds the
\* entry of one blob, put at time 0 and by now old enough to be trimmed
Init ==
    /\ \E S \in {T \in SUBSET Blobs : Cardinality(T) <= 1} :
          files = [nm \in Names |->
                    IF \E b \in S : Hash(b) = nm[2]
                    THEN EntryOf(nm, CHOOSE b \in S : Hash(b) = nm[2], 0)
                    ELSE NoFile(0)]
    /\ now = trimLimit + mtimeInterval + 1
    /\ ticks = ConcTicks
    /\ procs = [p \in Procs |-> Idle]
    /\ calls = [p \in Procs |-> MaxCalls]
    /\ menu = Calls(Blobs, IDs, {0})
    /\ first = files
    /\ web = NoWeb
    /\ sched = NoSched
    /\ dir = Opened

\* one goroutine, and the entry of Target in any state
SeqInit ==
    /\ \E a \in IndexContents(Target), d \in DataContents(Target), ea, ed \in BOOLEAN :
          files = [nm \in Names |->
                    IF nm = fileName(Hash(Target), "a") /\ ea THEN MkFile(a, 0)
                    ELSE IF nm = fileName(Hash(Target), "d") /\ ed THEN MkFile(d, 0)
                    ELSE NoFile(0)]
    /\ now = 0
    /\ ticks = MaxTicks
    /\ procs = [p \in Procs |-> Idle]
    /\ calls = [p \in Procs |-> IF p = 1 THEN SeqCalls ELSE 0]
    /\ menu = Calls(Blobs, IDs, {0, 1})
    /\ first = files
    /\ web = NoWeb
    /\ sched = NoSched
    /\ dir = Opened

\* two goroutines, and the entry of Target with an index that is absent or the
\* record a Put of Target wrote, and a data file in any state
RaceInit ==
    /\ \E a \in {IndexRecord(Hash(Target), Len(Target), 0)},
          d \in DataContents(Target), ea, ed \in BOOLEAN :
          files = [nm \in Names |->
                    IF nm = fileName(Hash(Target), "a") /\ ea THEN MkFile(a, 0)
                    ELSE IF nm = fileName(Hash(Target), "d") /\ ed THEN MkFile(d, 0)
                    ELSE NoFile(0)]
    /\ now = 0
    /\ ticks = ConcTicks
    /\ procs = [p \in Procs |-> Idle]
    /\ calls = [p \in Procs |-> MaxCalls]
    /\ menu = Calls({Target}, {Hash(Target)}, {0})
    /\ first = files
    /\ web = NoWeb
    /\ sched = NoSched
    /\ dir = Opened

\* one goroutine on a cache that holds the entry of Target, put at time 0
TrimInit ==
    /\ files = [nm \in Names |-> IF nm[2] = Hash(Target) THEN EntryOf(nm, Target, 0)
                                  ELSE NoFile(0)]
    /\ now = 0
    /\ ticks = MaxTicks
    /\ procs = [p \in Procs |-> Idle]
    /\ calls = [p \in Procs |-> IF p = 1 THEN SeqCalls ELSE 0]
    /\ menu = Calls({Target}, {Hash(Target)}, {0, 1})
    /\ first = files
    /\ web = NoWeb
    /\ sched = NoSched
    /\ dir = Opened

----------------------------------------------------------------------------
(* Actions.                                                                 *)

TickSteps == {1, trimLimit + mtimeInterval}

Tick(d) ==
    /\ ticks > 0
    /\ now' = now + d
    /\ ticks' = ticks - 1
    /\ UNCHANGED <<files, procs, calls, menu, first, web, sched, dir>>

\* goroutine numbers are names only: a goroutine starts its first call after
\* the goroutines of smaller number have started theirs.  The directory as
\* the call found it is kept while no other goroutine runs.
Alone(p) == \A q \in Procs \ {p} : calls[q] = 0 /\ ~Running(procs[q])

Start(p, call) ==
    /\ dir.cache
    /\ ~Running(procs[p])
    /\ calls[p] > 0
    /\ \A q \in Procs : q < p => procs[q].op # "none" \/ calls[q] = 0
    /\ procs' = [procs EXCEPT ![p] = [call EXCEPT !.pre = IF Alone(p) THEN files ELSE <<>>]]
    /\ calls' = [calls EXCEPT ![p] = calls[p] - 1]
    /\ UNCHANGED <<files, now, ticks, menu, first, web, sched, dir>>

StartPut(p, b) == Arg("Put", b, 0, 0) \in menu /\ Start(p, CallPut(b, b))
StartGet(p, id) == Arg("Get", <<>>, id, 0) \in menu /\ Start(p, CallGet(id))
StartGetFile(p, id) == Arg("GetFile", <<>>, id, 0) \in menu /\ Start(p, CallGetFile(id))
StartSize(p) == Arg("Size", <<>>, 0, 0) \in menu /\ Start(p, CallSize)
StartTrim(p, m) == Arg("Trim", <<>>, 0, m) \in menu /\ Start(p, CallTrim(m, now))

Do(p) ==
    /\ Running(procs[p])
    /\ \E r \in {Step(files, procs[p], now)} :
           /\ files' = r.f
           /\ procs' = [procs EXCEPT ![p] = r.p]
    /\ UNCHANGED <<now, ticks, calls, menu, first, web, sched, dir>>

\* a Put whose source reads differently in the second pass
StartPutChanged(p, b, b2) ==
    Arg("Put", b, 0, 0) \in menu /\ b2 \in Changed(b) /\ Start(p, CallPut(b, b2))

\* a Put in which one step of copyFile fails
StartPutFault(p, b, step) ==
    /\ Arg("Put", b, 0, 0) \in menu /\ step \in Faults
    /\ Start(p, [CallPut(b, b) EXCEPT !.fault = step])

DoPut(p) == procs[p].op = "Put" /\ Do(p)
DoGet(p) == procs[p].op = "Get" /\ Do(p)
DoGetFile(p) == procs[p].op = "GetFile" /\ Do(p)
DoSize(p) == procs[p].op = "Size" /\ Do(p)
DoTrim(p) == procs[p].op = "Trim" /\ Do(p)

Next ==
    \/ \E d \in TickSteps : Tick(d)
    \/ \E p \in Procs, b \in Blobs : StartPut(p, b)
    \/ \E p \in Procs, id \in IDs : StartGet(p, id)
    \/ \E p \in Procs, id \in IDs : StartGetFile(p, id)
    \/ \E p \in Procs : StartSize(p)
    \/ \E p \in Procs, m \in 0..MaxLen : StartTrim(p, m)
    \/ \E p \in Procs : DoPut(p)
    \/ \E p \in Procs : DoGet(p)
    \/ \E p \in Procs : DoGetFile(p)
    \/ \E p \in Procs : DoSize(p)
    \/ \E p \in Procs : DoTrim(p)

StrayNames == {<<FirstByte(Hash(Target)), 0 - k, "a">> : k \in 1..Len(StrayText)}

\* one goroutine, the entry of Target with its index file in any state, and
\* in its bucket any of the stray names, as empty files
StrayInit ==
    /\ \E a \in IndexContents(Target), ea \in BOOLEAN, S \in SUBSET StrayNames :
          files = [nm \in Names \cup StrayNames |->
                    IF nm = fileName(Hash(Target), "a") /\ ea THEN MkFile(a, 0)
                    ELSE IF nm = fileName(Hash(Target), "d") THEN MkFile(Target, 0)
                    ELSE IF nm \in S THEN MkFile(<<>>, 0)
                    ELSE NoFile(0)]
    /\ now = 0
    /\ ticks = MaxTicks
    /\ procs = [p \in Procs |-> Idle]
    /\ calls = [p \in Procs |-> IF p = 1 THEN SeqCalls ELSE 0]
    /\ menu = Calls({Target}, {Hash(Target)}, {0})
    /\ first = files
    /\ web = NoWeb
    /\ sched = NoSched
    /\ dir = Opened

\* one goroutine, the data file of Target in any state, its index file good
\* or absent
ChangeInit ==
    /\ \E d \in DataContents(Target), ea, ed \in BOOLEAN :
          files = [nm \in Names |->
                    IF nm = fileName(Hash(Target), "a") /\ ea
                    THEN MkFile(IndexRecord(Hash(Target), Len(Target), 0), 0)
                    ELSE IF nm = fileName(Hash(Target), "d") /\ ed THEN MkFile(d, 0)
                    ELSE NoFile(0)]
    /\ now = 0
    /\ ticks = MaxTicks
    /\ procs = [p \in Procs |-> Idle]
    /\ calls = [p \in Procs |-> IF p = 1 THEN SeqCalls ELSE 0]
    /\ menu = Calls(Blobs, IDs, {0})
    /\ first = files
    /\ web = NoWeb
    /\ sched = NoSched
    /\ dir = Opened

\* one goroutine that makes AgeCalls calls, one after the other, on a cache
\* that is empty at first, while the clock advances AgeTicks times
AgeInit ==
    /\ files = EmptyDir
    /\ now = 0
    /\ ticks = AgeTicks
    /\ procs = [p \in Procs |-> Idle]
    /\ calls = [p \in Procs |-> IF p = 1 THEN AgeCalls ELSE 0]
    /\ menu = Calls({Target}, {Hash(Target)}, {0})
    /\ first = files
    /\ web = NoWeb
    /\ sched = NoSched
    /\ dir = Opened

\* two goroutines on a cache that holds the entry of Target, put at time 0
\* and by now older than trimLimit
OldInit ==
    /\ files = [nm \in Names |-> IF nm[2] = Hash(Target) THEN EntryOf(nm, Target, 0)
                                  ELSE NoFile(0)]
    /\ now = trimLimit + mtimeInterval + 1
    /\ ticks = ConcTicks
    /\ procs = [p \in Procs |-> Idle]
    /\ calls = [p \in Procs |-> MaxCalls]
    /\ menu = Calls({Target}, {Hash(Target)}, {0})
    /\ first = files
    /\ web = NoWeb
    /\ sched = NoSched
    /\ dir = Opened

Spec == Init /\ [][Next]_vars
SeqSpec == SeqInit /\ [][Next]_vars
RaceSpec == RaceInit /\ [][Next]_vars

OldSpec == OldInit /\ [][Next]_vars
StraySpec == StrayInit /\ [][Next]_vars

AgeSpec == AgeInit /\ [][Next]_vars

ChangeNext ==
    \/ Next
    \/ \E p \in Procs : \E b \in Blobs : \E b2 \in Changed(b) : StartPutChanged(p, b, b2)
    \/ \E p \in Procs : \E b \in Blobs : \E step \in Faults : StartPutFault(p, b, step)

ChangeSpec == ChangeInit /\ [][ChangeNext]_vars

\* a goroutine that can take a step of Trim eventually takes it
FairSpec == TrimInit /\ [][Next]_vars /\ WF_vars(\E p \in Procs : DoTrim(p))

----------------------------------------------------------------------------
(* Properties.  A call that has returned is judged by its results and by    *)
(* the directory it found (pre) and left; what a further call would return  *)
(* is computed by running that call on the directory as it is.              *)

\* more system calls than any call that returns makes
RunFuel == 60

Result(f, call, t) == Run(f, call, t, RunFuel)

Returned(p, op) == procs[p].op = op /\ procs[p].pc = "done"
Index(id) == fileName(id, "a")
Data(id) == fileName(id, "d")

\* The fixed record, in the words of the format: 'v1 ', the ID in hex, a
\* space, the size, a space, the timestamp, a newline; size and timestamp
\* are decimal numbers, right-justified in their fields.
Lower(c) == IF \E i \in 1..6 : UpperHex[i] = c
            THEN HexDigits[10 + CHOOSE i \in 1..6 : UpperHex[i] = c] ELSE c

Numeral(s) == SubSeq(s, 1 + Cardinality({k \in 1..Len(s) : \A i \in 1..k : s[i] = " "}), Len(s))
Unsigned(s) == IF s # <<>> /\ s[1] \in {"+", "-"} THEN Tail(s) ELSE s

IsDecimal(s) ==
    /\ Unsigned(Numeral(s)) # <<>>
    /\ \A i \in 1..Len(Unsigned(Numeral(s))) : IsDigit(Unsigned(Numeral(s))[i])

IsNegative(s) ==
    /\ IsDecimal(s) /\ Numeral(s)[1] = "-"
    /\ \E i \in 1..Len(Unsigned(Numeral(s))) : Unsigned(Numeral(s))[i] # "0"

\* the field holds the decimal number n
FieldIs(s, n) ==
    IsDecimal(s) /\ ~IsNegative(s) /\ StripZeros(Unsigned(Numeral(s))) = Dec(n)

IdField(c) == SubSeq(c, 4, 3 + hexSize)
SizeField(c) == SubSeq(c, SizeAt + 1, SizeAt + FieldWidth)
TimeField(c) == SubSeq(c, TimeAt + 1, TimeAt + FieldWidth)

WrongLength(c) == Len(c) # entrySize
WrongFrame(c) ==
    \/ SubSeq(c, 1, 3) # <<"v", "1", " ">>
    \/ c[SizeAt] # " " \/ c[TimeAt] # " " \/ c[entrySize] # "\n"
WrongID(c, id) == [i \in 1..hexSize |-> Lower(IdField(c)[i])] # HexID(id)
WrongNumber(s) == ~IsDecimal(s) \/ IsNegative(s)

\* the content deviates from the record of id in one of the ways listed; a
\* '+' before the digits, zeros in place of the padding and upper-case hex
\* digits are read as the number and the ID they denote
Deviates(c, id) ==
    \/ WrongLength(c)
    \/ ~WrongLength(c) /\ WrongFrame(c)
    \/ ~WrongLength(c) /\ WrongID(c, id)
    \/ ~WrongLength(c) /\ (WrongNumber(SizeField(c)) \/ WrongNumber(TimeField(c)))

PutReturned(p) == Returned(p, "Put") /\ procs[p].err = Nil

\* C1: Round-trip.  After Put(b) has returned (id, size, nil), whatever the
\* state of the entry before it, size is the length of b, Get(id) returns an
\* entry of that size with no error, and GetFile(id) returns with no error
\* the name of the data file of id, whose content is exactly b.
C1_RoundTrip ==
    \A p \in Procs : PutReturned(p) =>
        LET r == procs[p]
            g == Result(files, CallGet(r.id), now).p
            gf == Result(files, CallGetFile(r.id), now).p
        IN  /\ r.size = Len(r.blob)
            /\ g.pc = "done" /\ g.err = Nil /\ g.entry.Size = Len(r.blob)
            /\ gf.pc = "done" /\ gf.err = Nil /\ gf.entry.Size = Len(r.blob)
            /\ gf.path = Data(r.id) /\ gf.seen = r.blob
            /\ files[Data(r.id)].content = r.blob

\* a Put of Target has returned that found a data file of other content
C1_Witness ==
    \E p \in Procs :
        /\ PutReturned(p) /\ procs[p].blob = Target
        /\ procs[p].pre # <<>>
        /\ procs[p].pre[Data(procs[p].id)].exists
        /\ procs[p].pre[Data(procs[p].id)].content = Flip(Target)
        /\ files[Data(procs[p].id)].content = Target

SizeOf(f) == Result(f, CallSize, now).p
Valid(f, id) == Result(f, CallGetFile(id), now).p.err = Nil

\* C2: Idempotent Put.  A second Put(b) after a Put(b) that has returned
\* returns the same id and size with no error, leaves the content of the data
\* file as it was and the entry valid as it was, and Size() returns after it
\* what it returned before it.
C2_IdempotentPut ==
    \A p \in Procs : PutReturned(p) =>
        LET r == procs[p]
            again == Result(files, CallPut(r.blob, r.blob), now)
        IN  /\ again.p.pc = "done" /\ again.p.err = Nil
            /\ again.p.id = r.id /\ again.p.size = r.size
            /\ again.f[Data(r.id)] = files[Data(r.id)]
            /\ Valid(files, r.id) /\ Valid(again.f, r.id)
            /\ SizeOf(files).err = Nil /\ SizeOf(again.f).err = Nil
            /\ SizeOf(again.f).total = SizeOf(files).total

\* a Put has returned that found the valid entry an earlier Put of the same
\* blob had left, and the data file is as that Put left it
C2_Witness ==
    \E p \in Procs :
        /\ PutReturned(p) /\ procs[p].blob = Target /\ procs[p].pre # <<>>
        /\ procs[p].pre[Index(procs[p].id)] = EntryOf(Index(procs[p].id), Target, 0)
        /\ procs[p].pre[Data(procs[p].id)] = EntryOf(Data(procs[p].id), Target, 0)
        /\ files[Data(procs[p].id)] = procs[p].pre[Data(procs[p].id)]
        /\ now > mtimeInterval

\* a number of at most 63 bits
InRange(s) == IsDecimal(s) /\ ~Exceeds(Unsigned(Numeral(s)), MaxInt64)

WellFormed(c, id) == ~Deviates(c, id) /\ InRange(SizeField(c)) /\ InRange(TimeField(c))

\* the entry of id GetFile needs: a record of id in the index file, and a
\* data file of the size the record gives
Complete(f, id) ==
    /\ f[Index(id)].exists /\ WellFormed(f[Index(id)].content, id)
    /\ f[Data(id)].exists
    /\ FieldIs(SizeField(f[Index(id)].content), Len(f[Data(id)].content))

\* C4: GetFile(id) returns with no error only if the index file of id holds a
\* well-formed record that names id, the data file of id exists and its length
\* is the size the record gives; then it returns the name of the data file.
\* From every other state it returns an error, no name and no entry.
C4_GetFileValid ==
    \A p \in Procs : (Returned(p, "GetFile") /\ procs[p].pre # <<>>) =>
        LET r == procs[p]
        IN  IF Complete(r.pre, r.id)
            THEN r.err = Nil /\ r.path = Data(r.id)
                 /\ FieldIs(SizeField(r.pre[Index(r.id)].content), r.entry.Size)
            ELSE r.err # Nil /\ r.path = <<>> /\ r.entry = NoEntry

\* a GetFile has failed on a well-formed index and a data file that is too
\* short
C4_Witness ==
    \E p \in Procs :
        /\ Returned(p, "GetFile") /\ procs[p].pre # <<>>
        /\ procs[p].pre[Index(procs[p].id)].exists
        /\ WellFormed(procs[p].pre[Index(procs[p].id)].content, procs[p].id)
        /\ procs[p].pre[Data(procs[p].id)].exists
        /\ procs[p].err = ErrIncomplete /\ procs[p].path = <<>>

\* C6: Malformed index is treated as missing.  If the content of the index
\* file of id is empty, shorter or longer than entrySize, has a wrong header
\* or separator, a size or timestamp that is not a decimal number or is
\* negative, or an ID in hex that is not id, then Get(id) returns an error
\* that matches os.ErrNotExist and no entry, and leaves every file, the index
\* and the data file of id included, as it was in content and in mtime.
C6_MalformedIsMissing ==
    \A p \in Procs :
        (/\ Returned(p, "Get") /\ procs[p].pre # <<>>
         /\ procs[p].pre[Index(procs[p].id)].exists
         /\ Deviates(procs[p].pre[Index(procs[p].id)].content, procs[p].id)) =>
            /\ procs[p].err # Nil /\ IsNotExist(procs[p].err)
            /\ procs[p].entry = NoEntry
            /\ files = procs[p].pre

\* a Get has returned, an hour or more after the files were written, that
\* found an index of the right length with a negative timestamp
C6_Witness ==
    \E p \in Procs :
        /\ Returned(p, "Get") /\ procs[p].pre # <<>>
        /\ procs[p].pre[Index(procs[p].id)].exists
        /\ procs[p].pre[Index(procs[p].id)].content = IndexRecord(procs[p].id, Len(Target), 0 - 1)
        /\ procs[p].pre[Data(procs[p].id)].exists
        /\ procs[p].err = ErrMissing
        /\ now >= mtimeInterval

\* C7: Rejection of a tampered data file.  If the index file of id holds the
\* record of id and of the blob's size, and the data file of id holds bytes
\* of any length, the length the record gives included, whose hash is not id,
\* then GetFile(id) returns an error.
C7_TamperRejected ==
    \A p \in Procs :
        (/\ Returned(p, "GetFile") /\ procs[p].pre # <<>>
         /\ procs[p].pre[Index(procs[p].id)].exists
         /\ WellFormed(procs[p].pre[Index(procs[p].id)].content, procs[p].id)
         /\ \E b \in Blobs :
                /\ Hash(b) = procs[p].id
                /\ FieldIs(SizeField(procs[p].pre[Index(procs[p].id)].content), Len(b))
         /\ procs[p].pre[Data(procs[p].id)].exists
         /\ Hash(procs[p].pre[Data(procs[p].id)].content) # procs[p].id) =>
            procs[p].err # Nil

\* the time Trim uses as now is within trimLimit + mtimeInterval of mtime
Within(mtime, tnow) == tnow - mtime <= trimLimit + mtimeInterval

\* C8, as claimed: for every maxBytes, Trim(maxBytes) removes no index file
\* and no data file of an entry whose data file has an mtime within
\* trimLimit + mtimeInterval of the time Trim uses as now.
C8_NeverRemovesRecent ==
    \A p \in Procs : \A r \in procs[p].rm :
        ~(r.data.exists /\ Within(r.data.mtime, procs[p].tnow))

\* C8, amended: Trim removes a file only if the mtime its stat of that very
\* file returned is older than now - maxAge - mtimeInterval, now being the
\* time Trim read when it started; maxAge is trimLimit in the first pass,
\* the only pass of Trim(0), and is halved before every further pass.  So
\* Trim(0) removes no file whose own mtime is within trimLimit + mtimeInterval
\* of now, and Trim(maxBytes > 0) may remove younger files.
C8_RemovesOnlyExpired ==
    \A p \in Procs : \A r \in procs[p].rm :
        /\ r.stat < procs[p].tnow - r.maxAge - mtimeInterval
        /\ r.maxAge >= 0 /\ r.maxAge <= trimLimit
        /\ procs[p].maxBytes = 0 =>
              r.maxAge = trimLimit /\ ~Within(r.stat, procs[p].tnow)

\* a Trim(1) has removed, in a pass with a halved maxAge, a data file whose
\* mtime is within trimLimit + mtimeInterval of now
C8_Witness ==
    \E p \in Procs : \E r \in procs[p].rm :
        /\ procs[p].maxBytes > 0 /\ r.maxAge < trimLimit
        /\ r.name[3] = "d" /\ Within(r.mtime, procs[p].tnow)
        /\ ~files[r.name].exists

\* C10: Trim age bound.  After Trim(0) has returned, its now being
\* t0 + trimLimit + mtimeInterval + e with e > 0, no index or data file with
\* an mtime older than t0 is left, and of an entry whose files were last
\* written or used at t0 or earlier the data file is gone and Get(id) returns
\* an error that matches os.ErrNotExist.
C10_TrimAgeBound ==
    \A p \in Procs : (Returned(p, "Trim") /\ procs[p].maxBytes = 0 /\ procs[p].pre # <<>>) =>
        /\ procs[p].err = Nil
        /\ \A t0 \in 0..(procs[p].tnow - trimLimit - mtimeInterval - 1) :
              /\ \A nm \in Names : files[nm].exists => files[nm].mtime >= t0
              /\ \A id \in IDs :
                    (/\ procs[p].pre[Index(id)].exists /\ procs[p].pre[Index(id)].mtime <= t0
                     /\ procs[p].pre[Data(id)].exists /\ procs[p].pre[Data(id)].mtime <= t0) =>
                        /\ ~files[Data(id)].exists /\ ~files[Index(id)].exists
                        /\ Result(files, CallGet(id), now).p.err = ErrMissing

\* a Trim(0) has returned that ran one time unit past trimLimit +
\* mtimeInterval after the entry of Target was put, and the entry is gone
C10_Witness ==
    \E p \in Procs :
        /\ Returned(p, "Trim") /\ procs[p].maxBytes = 0 /\ procs[p].pre # <<>>
        /\ procs[p].tnow = trimLimit + mtimeInterval + 1
        /\ procs[p].pre[Index(Hash(Target))] = EntryOf(Index(Hash(Target)), Target, 0)
        /\ procs[p].pre[Data(Hash(Target))] = EntryOf(Data(Hash(Target)), Target, 0)
        /\ ~files[Index(Hash(Target))].exists /\ ~files[Data(Hash(Target))].exists

\* C3: Writes are atomic with respect to readers.  Whatever the data file of
\* the ID was before a Put of the ID's blob (absent, shorter, longer, of the
\* same length with other bytes), a GetFile(ID) that returns with no error
\* while or after the Put runs returns a data file that holds the complete
\* new blob or the complete file that was there before the Put.
C3_AtomicWrites ==
    \A p \in Procs : \A q \in Procs \ {p} :
        (/\ Returned(p, "GetFile") /\ procs[p].err = Nil
         /\ procs[q].op = "Put" /\ procs[q].id = procs[p].id) =>
            \/ procs[p].seen = procs[q].blob
            \/ /\ first[Data(procs[p].id)].exists
               /\ procs[p].seen = first[Data(procs[p].id)].content

C9_TrimTerminates ==
    \A p \in Procs :
        (procs[p].op = "Trim" /\ Running(procs[p])) ~> (procs[p].op = "Trim" /\ procs[p].pc = "done")

\* C11: Trim size bound.  Whenever Trim(M) with M > 0 has returned without
\* error and no other goroutine ran meanwhile, a call of Size() on the
\* directory Trim left returns without error a total that is at most M.  (The
\* loop of Trim has no floor of maxAge to stop at: its only return for M > 0
\* is the one after Size() <= M.)
C11_TrimSizeBound ==
    \A p \in Procs :
        (/\ Returned(p, "Trim") /\ procs[p].err = Nil
         /\ procs[p].maxBytes > 0 /\ procs[p].pre # <<>>) =>
            SizeOf(files).err = Nil /\ SizeOf(files).total <= procs[p].maxBytes

\* a Trim(1) has returned that found the entry of Target with Size() = 2,
\* kept it in its first sweep, halved maxAge and then removed it
C11_Witness ==
    \E p \in Procs :
        /\ Returned(p, "Trim") /\ procs[p].err = Nil
        /\ procs[p].maxBytes = 1 /\ procs[p].pre # <<>>
        /\ SizeOf(procs[p].pre).total = Len(Target)
        /\ procs[p].maxAge < trimLimit
        /\ procs[p].rm # {}
        /\ SizeOf(files).total = 0

\* the entry of id is damaged for the blob b: no index file or one that is
\* not the record of id and of the size of b, no data file or one that is
\* shorter or longer than b or holds other bytes of the same length
Damaged(f, id, b) ==
    \/ ~f[Index(id)].exists
    \/ ~WellFormed(f[Index(id)].content, id)
    \/ ~FieldIs(SizeField(f[Index(id)].content), Len(b))
    \/ ~f[Data(id)].exists
    \/ f[Data(id)].content # b

\* C20: Self-healing.  From every damaged state of the two files of the ID
\* (index missing or malformed; data file missing, shorter, longer, or of the
\* same length with other bytes), a Put(b) with H(b) = ID that returns with
\* no error leaves on disk an index file that holds exactly one well-formed
\* record of ID with Size = len(b), and a data file whose content is b.
C20_SelfHealing ==
    \A p \in Procs :
        (/\ PutReturned(p) /\ procs[p].pre # <<>>
         /\ Hash(procs[p].blob) = procs[p].id
         /\ Damaged(procs[p].pre, procs[p].id, procs[p].blob)) =>
            /\ files[Index(procs[p].id)].exists
            /\ Len(files[Index(procs[p].id)].content) = entrySize
            /\ WellFormed(files[Index(procs[p].id)].content, procs[p].id)
            /\ FieldIs(SizeField(files[Index(procs[p].id)].content), Len(procs[p].blob))
            /\ files[Data(procs[p].id)].exists
            /\ files[Data(procs[p].id)].content = procs[p].blob
            /\ ~Damaged(files, procs[p].id, procs[p].blob)

\* a Put of Target has returned that found an index file holding two records
\* and a data file one byte longer than Target
C20_Witness ==
    \E p \in Procs :
        /\ PutReturned(p) /\ procs[p].blob = Target /\ procs[p].pre # <<>>
        /\ procs[p].pre[Index(procs[p].id)].exists
        /\ Len(procs[p].pre[Index(procs[p].id)].content) = 2 * entrySize
        /\ procs[p].pre[Data(procs[p].id)].exists
        /\ procs[p].pre[Data(procs[p].id)].content = Target \o <<0>>
        /\ ~Damaged(files, procs[p].id, Target)

----------------------------------------------------------------------------
(* The storage handler (package cas): requests, the upstream, the response. *)
(* Text in requests and replies: Base58 of an ID, the escaped file name.    *)

\* longest blob the upstream holds or a client uploads
WebLen == 3
\* how many requests a run of the handler serves
WebCalls == 2

\* the consumer's buffer (32 KiB in the program) and the buffer of io.Copy
\* (32 KiB in the library), in bytes of the model; the channel's capacity
bufSize == 2
copyBuf == 2
chanCap == 1

\* echo.MIMEOctetStream
MIMEOctetStream == "application/octet-stream"
StatusOK == 200
StatusCreated == 201
StatusBadRequest == 400
StatusNotFound == 404
StatusInternalServerError == 500

Bodies == SeqsUpTo(PutBytes, WebLen)
\* an ID that is the hash of no blob
Unknown == 1

WebIDs == {Hash(b) : b \in Bodies} \cup {Unknown}
WebNames == {fileName(id, key) : id \in WebIDs, key \in Keys}

Alphabet58 ==
    <<"1", "2", "3", "4", "5", "6", "7", "8", "9", "A", "B", "C", "D", "E", "F", "G",
      "H", "J", "K", "L", "M", "N", "P", "Q", "R", "S", "T", "U", "V", "W", "X", "Y",
      "Z", "a", "b", "c", "d", "e", "f", "g", "h", "i", "j", "k", "m", "n", "o", "p",
      "q", "r", "s", "t", "u", "v", "w", "x", "y", "z">>

\* an ID as its bytes, most significant first, and back
IDBytes(id) == [i \in 1..HashSize |-> (id \div Pow(256, HashSize - i)) % 256]

RECURSIVE BytesVal(_)
BytesVal(bs) ==
    IF bs = <<>> THEN 0 ELSE BytesVal(SubSeq(bs, 1, Len(bs) - 1)) * 256 + bs[Len(bs)]

\* the bytes of a number, most significant first, none for zero
RECURSIVE ValBytes(_)
ValBytes(n) == IF n = 0 THEN <<>> ELSE ValBytes(n \div 256) \o <<n % 256>>

\* how many elements at the head of s are c
Leading(s, c) == Cardinality({k \in 1..Len(s) : \A i \in 1..k : s[i] = c})

RECURSIVE ToBase58(_)
ToBase58(n) == IF n = 0 THEN <<>> ELSE ToBase58(n \div 58) \o <<Alphabet58[(n % 58) + 1]>>

\* base58.Encode: a '1' for every leading zero byte, then the number
Encode58(bs) == [i \in 1..Leading(bs, 0) |-> "1"] \o ToBase58(BytesVal(bs))

Val58(c) == IF \E i \in 1..58 : Alphabet58[i] = c
            THEN (CHOOSE i \in 1..58 : Alphabet58[i] = c) - 1 ELSE 255

RECURSIVE FromBase58(_)
FromBase58(s) ==
    IF s = <<>> THEN 0 ELSE FromBase58(SubSeq(s, 1, Len(s) - 1)) * 58 + Val58(s[Len(s)])

\* base58.Decode: an error for a character outside the alphabet; else a zero
\* byte for every leading '1', then the bytes of the number
Decode58(s) ==
    IF \E i \in 1..Len(s) : Val58(s[i]) = 255
    THEN [ok |-> FALSE, bytes |-> <<>>]
    ELSE [ok |-> TRUE, bytes |-> Zeros(Leading(s, "1")) \o ValBytes(FromBase58(s))]

\* url.PathEscape on the characters of the model's file names
EscapeChar(c) ==
    CASE c = "/" -> <<"%", "2", "F">>
      [] c = "?" -> <<"%", "3", "F">>
      [] c = "%" -> <<"%", "2", "5">>
      [] OTHER -> <<c>>

RECURSIVE PathEscape(_)
PathEscape(s) == IF s = <<>> THEN <<>> ELSE EscapeChar(Head(s)) \o PathEscape(Tail(s))

\* strings.Split(s, "/")
RECURSIVE Split(_)
Split(s) ==
    IF \A i \in 1..Len(s) : s[i] # "/" THEN <<s>>
    ELSE LET k == CHOOSE i \in 1..Len(s) : s[i] = "/" /\ \A j \in 1..(i - 1) : s[j] # "/"
         IN  <<SubSeq(s, 1, k - 1)>> \o Split(SubSeq(s, k + 1, Len(s)))

baseURL == <<"h", ":", "/", "/", "m", "/", "b">>
FileNames == {<<"t">>, <<"t", "?">>, <<"%", "t">>}

\* a URL with the file name before the id
Location_nameFirst(encodedID, filename) ==
    baseURL \o <<"/">> \o PathEscape(filename) \o <<"/">> \o encodedID

\* fmt.Sprintf("%s/%s/%s", s.baseURL, encodedID, url.PathEscape(body.Filename))
Location(encodedID, filename) ==
    baseURL \o <<"/">> \o encodedID \o <<"/">> \o PathEscape(filename)

\* The handler's record.  Of the request: op, param (the id segment), form
\* (the uploaded file or none), id.  Of the reply: ret (the HTTP error the
\* handler returned, 0 for nil), status (what the client got, 0 while nothing
\* is committed), clen (Content-Length, -1 if not set), out (body bytes sent).
\* Of the miss path: tmp (the temp file), src (what the upstream reader still
\* holds), ch and closed (dataAvailableCh), prod and cons (where the two
\* tasks are), perr and cerr (what they returned), ctx (cancelled or not),
\* writtenBytes, pos and nr (the consumer's locals).  ups is the upstream.
\* Kept for the properties: uerr (the error Upstream.Get returned, if any),
\* pre (the cache directory when the request came),
\* temps (temp files created), log (calls made to cache and upstream), last
\* (the request served before this one, and its reply).
NoTmp == [exists |-> FALSE, content |-> <<>>]
NoForm == [file |-> FALSE, body |-> <<>>, name |-> <<>>]
NoReply == [op |-> "none", form |-> NoForm, status |-> 0, out |-> <<>>]

\* the request before this one, and its reply
Reply(w) ==
    IF w.pc = "done" THEN [op |-> w.op, form |-> w.form, status |-> w.status, out |-> w.out]
    ELSE NoReply

NewWeb(ups, reqs) ==
    [pc |-> "idle", op |-> "none", reqs |-> reqs, ups |-> ups,
     param |-> <<>>, form |-> NoForm, id |-> 0,
     ret |-> 0, status |-> 0, clen |-> 0 - 1, out |-> <<>>,
     \* the Content-Type the handler set, and how often it wrote the status
     ctype |-> "", hdrs |-> 0,
     tmp |-> NoTmp, src |-> <<>>, ch |-> 0, closed |-> FALSE,
     prod |-> "none", cons |-> "none", perr |-> FALSE, cerr |-> FALSE, ctx |-> FALSE,
     writtenBytes |-> 0, pos |-> 0, nr |-> 0,
     \* copyContext: the error it returned, and whether it has read from its
     \* source after the context was cancelled
     cpErr |-> "", lateRead |-> FALSE,
     uerr |-> "", pre |-> <<>>, temps |-> 0, log |-> <<>>, last |-> NoReply]

\* a call of the cache or of the upstream, with the ID passed or returned
Logged(w, call, id) == [w EXCEPT !.log = Append(w.log, [call |-> call, id |-> id])]

\* a handler that returns without its deferred Close and Remove
Cleanup_leak(w) == w

\* the deferred f.Close() and os.Remove(f.Name())
Cleanup(w) == [w EXCEPT !.tmp = NoTmp]

\* return echo.NewHTTPError(code): the code reaches the client unless the
\* response is already committed
Fail(w, code) ==
    [Cleanup(w) EXCEPT !.pc = "done", !.ret = code,
                       !.status = IF w.status = 0 THEN code ELSE w.status]

\* return nil: a response that was never written goes out as 200
ReturnNil(w) ==
    [Cleanup(w) EXCEPT !.pc = "done", !.ret = 0,
                       !.status = IF w.status = 0 THEN StatusOK ELSE w.status]

\* localCache.Get(id): the entry and a reader on the data file, or an error
cacheGet(f, id, t) ==
    LET r == Result(f, CallGetFile(id), t)
    IN  [f |-> r.f, err |-> r.p.err, entry |-> r.p.entry,
         data |-> IF r.p.err = Nil THEN r.f[fileName(id, "d")].content ELSE <<>>]

\* localCache.Put(f), f rewound
cachePut(f, b, t) ==
    LET r == Result(f, CallPut(b, b), t)
    IN  [f |-> r.f, err |-> r.p.err, id |-> r.p.id, size |-> r.p.size]

\* an id that cannot be used: not Base58, or not of the hash's length
badParam(param) == ~Decode58(param).ok \/ Len(Decode58(param).bytes) # HashSize

\* a cache error that sends the handler to the upstream
isMiss(err) == IsNotExist(err)

\* the id segments of requests: the IDs in Base58, a character that is not
\* Base58, an id that is too short and one that is too long
Params == {Encode58(IDBytes(id)) : id \in WebIDs} \cup {<<"0">>, <<"t">>, <<"1", "1", "1">>}

\* Storage.Get up to the cache lookup: the id is decoded
GetBlob(param) ==
    /\ web.pc \in {"idle", "done"} /\ web.reqs > 0
    /\ LET w == [NewWeb(web.ups, web.reqs - 1) EXCEPT !.op = "GetBlob", !.param = param,
                                                    !.pre = files, !.last = Reply(web)]
       IN  web' = IF badParam(param) THEN Fail(w, StatusBadRequest)
                  ELSE [w EXCEPT !.pc = "g_cache", !.id = BytesVal(Decode58(param).bytes)]
    /\ UNCHANGED <<files, now, procs, ticks, calls, menu, first, sched, dir>>

\* a hit that announces an empty body
contentLength_zero(entry) == 0

\* the Content-Length header of a hit
contentLength(entry) == entry.Size

\* the cache lookup: an error that is not a miss, a hit that is streamed, or
\* a miss
GetCache ==
    /\ web.op = "GetBlob" /\ web.pc = "g_cache"
    /\ \E r \in {cacheGet(files, web.id, now)} :
         /\ files' = r.f
         /\ LET w == Logged(web, "CacheGet", web.id)
            IN  web' = IF r.err # Nil /\ ~isMiss(r.err)
                       THEN Fail(w, StatusInternalServerError)
                       ELSE IF r.err = Nil
                       THEN ReturnNil([w EXCEPT !.clen = contentLength(r.entry), !.status = StatusOK,
                                                !.ctype = MIMEOctetStream, !.hdrs = 1,
                                                !.out = r.data])
                       ELSE [w EXCEPT !.pc = "g_ups"]
    /\ UNCHANGED <<now, procs, ticks, calls, menu, first, sched, dir>>

\* the errors of the upstream: the canonical not-found, and any other
ErrNotFound == "ErrNotFound"
ErrUpstream == "upstream error"

\* a handler that takes every error of the upstream for not-found
upstreamStatus_notFound(err) == StatusNotFound

\* the reply to an error of Upstream.Get
upstreamStatus(err) ==
    IF err = ErrNotFound THEN StatusNotFound ELSE StatusInternalServerError

\* s.ups.Get(id): the blob if the upstream holds it, ErrNotFound if not, or
\* whenever the upstream is called another error
GetUpstream ==
    /\ web.op = "GetBlob" /\ web.pc = "g_ups"
    /\ LET w == Logged(web, "UpstreamGet", web.id)
       IN  \/ /\ web.ups[web.id].exists
              /\ web' = [w EXCEPT !.pc = "g_temp", !.src = web.ups[web.id].content]
           \/ /\ ~web.ups[web.id].exists
              /\ web' = Fail([w EXCEPT !.uerr = ErrNotFound], upstreamStatus(ErrNotFound))
           \/ web' = Fail([w EXCEPT !.uerr = ErrUpstream], upstreamStatus(ErrUpstream))
    /\ UNCHANGED <<files, now, procs, ticks, calls, menu, first, sched, dir>>

\* os.CreateTemp, the channel, the group and its two tasks
GetTemp ==
    /\ web.op = "GetBlob" /\ web.pc = "g_temp"
    /\ \/ web' = Fail(web, StatusInternalServerError)
       \/ web' = [web EXCEPT !.pc = "g_wait", !.tmp = [exists |-> TRUE, content |-> <<>>],
                             !.temps = web.temps + 1, !.ch = 0, !.closed = FALSE,
                             !.prod = "copy", !.cons = "recv"]
    /\ UNCHANGED <<files, now, procs, ticks, calls, menu, first, sched, dir>>

Min(a, b) == IF a < b THEN a ELSE b

\* a send that gives up when the channel is full
send_nonBlocking(ch) == [ok |-> TRUE, ch |-> IF ch < chanCap THEN ch + 1 ELSE ch]

\* dataAvailableCh <- struct{}{}: waits while the channel is full
send(ch) == [ok |-> ch < chanCap, ch |-> ch + 1]

\* a chunk that is not cut to the buffer
chunkSize_uncut(pos, writtenBytes) == pos - writtenBytes

\* chunkSize: what lies between writtenBytes and pos, at most a buffer full
chunkSize(pos, writtenBytes) == Min(pos - writtenBytes, bufSize)

\* f.ReadAt(buf[:n], off): the bytes there are, at most n
ReadAt(content, n, off) == SubSeq(content, off + 1, Min(off + n, Len(content)))

\* the producer returns: the channel is closed, and an error cancels the group
ProdReturn(w, failed) ==
    [w EXCEPT !.prod = "done", !.closed = TRUE, !.perr = failed,
              !.ctx = w.ctx \/ failed]

\* the consumer returns
ConsReturn(w, failed) ==
    [w EXCEPT !.cons = "done", !.cerr = failed, !.ctx = w.ctx \/ failed]

ErrCanceled == "context canceled"
ErrRead == "read failed"

\* a copyContext that never looks at the context
ctxDone_never(w) == FALSE

\* copyContext's select: case <-ctx.Done()
ctxDone(w) == w.ctx

\* copyContext's default case: src.Read(p) is called
Reading(w) == [w EXCEPT !.lateRead = @ \/ w.ctx]

\* the producer, one round of io.Copy: copyContext looks at the context and
\* reads from the upstream; what was read is written to the temp file
ProdCopy ==
    /\ web.pc = "g_wait" /\ web.prod = "copy"
    /\ IF ctxDone(web)
       THEN web' = ProdReturn([web EXCEPT !.cpErr = ErrCanceled], TRUE)
       ELSE \/ \E k \in 1..Min(copyBuf, Len(web.src)) :
                 web' = [Reading(web) EXCEPT
                            !.tmp.content = web.tmp.content \o SubSeq(web.src, 1, k),
                            !.src = SubSeq(web.src, k + 1, Len(web.src)),
                            !.prod = "send"]
            \/ /\ web.src = <<>>
               /\ web' = ProdReturn(Reading(web), FALSE)
            \/ web' = ProdReturn([Reading(web) EXCEPT !.cpErr = ErrRead], TRUE)
    /\ UNCHANGED <<files, now, procs, ticks, calls, menu, first, sched, dir>>

\* the producer's second writer: the notification
ProdSend ==
    /\ web.pc = "g_wait" /\ web.prod = "send"
    /\ send(web.ch).ok
    /\ web' = [web EXCEPT !.ch = send(web.ch).ch, !.prod = "copy"]
    /\ UNCHANGED <<files, now, procs, ticks, calls, menu, first, sched, dir>>

\* for range dataAvailableCh: a notification is taken, and with the first
\* the headers are written; the loop ends on the closed and empty channel
ConsRecv ==
    /\ web.pc = "g_wait" /\ web.cons = "recv"
    /\ \/ /\ web.ch > 0
          /\ web' = [web EXCEPT !.ch = web.ch - 1, !.cons = "seek",
                                !.status = IF web.writtenBytes = 0 THEN StatusOK
                                           ELSE web.status,
                                !.ctype = IF web.writtenBytes = 0 THEN MIMEOctetStream
                                          ELSE web.ctype,
                                !.hdrs = IF web.writtenBytes = 0 THEN web.hdrs + 1
                                         ELSE web.hdrs]
       \/ /\ web.ch = 0 /\ web.closed
          /\ web' = ConsReturn(web, FALSE)
    /\ UNCHANGED <<files, now, procs, ticks, calls, menu, first, sched, dir>>

\* pos, err := f.Seek(0, io.SeekCurrent): the producer's offset
ConsSeek ==
    /\ web.pc = "g_wait" /\ web.cons = "seek"
    /\ web' = [web EXCEPT !.pos = Len(web.tmp.content), !.cons = "copy"]
    /\ UNCHANGED <<files, now, procs, ticks, calls, menu, first, sched, dir>>

\* the chunk is read from the temp file and written to the client, or the
\* client is gone
ConsWrite ==
    /\ web.pc = "g_wait" /\ web.cons = "copy"
    /\ \/ \E data \in {ReadAt(web.tmp.content, chunkSize(web.pos, web.writtenBytes),
                              web.writtenBytes)} :
              web' = [web EXCEPT !.out = web.out \o data, !.nr = Len(data),
                                 !.writtenBytes = web.writtenBytes + Len(data),
                                 !.cons = "recv"]
       \/ web' = ConsReturn(web, TRUE)
    /\ UNCHANGED <<files, now, procs, ticks, calls, menu, first, sched, dir>>

\* the request's context is cancelled while the tasks run, or while the
\* upload is copied
Cancel ==
    /\ ~web.ctx
    /\ \/ web.pc = "g_wait" /\ (web.prod # "done" \/ web.cons # "done")
       \/ web.pc = "p_copy"
    /\ web' = [web EXCEPT !.ctx = TRUE]
    /\ UNCHANGED <<files, now, procs, ticks, calls, menu, first, sched, dir>>

\* a Wait that returns the producer's error only
waitErr_producer(w) == w.perr

\* g.Wait(): the first error that a task returned
waitErr(w) == w.perr \/ w.cerr

\* g.Wait() returns when both tasks have returned
GetWait ==
    /\ web.op = "GetBlob" /\ web.pc = "g_wait"
    /\ web.prod = "done" /\ web.cons = "done"
    /\ web' = IF waitErr(web) THEN Fail(web, StatusInternalServerError)
              ELSE [web EXCEPT !.pc = "g_put"]
    /\ UNCHANGED <<files, now, procs, ticks, calls, menu, first, sched, dir>>

\* the temp file is rewound and put into the cache
GetPut ==
    /\ web.op = "GetBlob" /\ web.pc = "g_put"
    /\ \E r \in {cachePut(files, web.tmp.content, now)} :
         /\ files' = r.f
         /\ LET w == Logged(web, "CachePut", r.id)
            IN  web' = IF r.err # Nil THEN Fail(w, StatusInternalServerError)
                       ELSE ReturnNil(w)
    /\ UNCHANGED <<now, procs, ticks, calls, menu, first, sched, dir>>

\* Storage.Put up to the copy: the form's file is found and opened, and the
\* temp file is created
PutBlob(form) ==
    /\ web.pc \in {"idle", "done"} /\ web.reqs > 0
    /\ LET w == [NewWeb(web.ups, web.reqs - 1) EXCEPT !.op = "PutBlob", !.form = form,
                                                    !.pre = files, !.last = Reply(web)]
       IN  IF ~form.file THEN web' = Fail(w, StatusBadRequest)
           ELSE \/ web' = Fail(w, StatusInternalServerError)
                \/ web' = [w EXCEPT !.pc = "p_copy", !.temps = 1, !.src = form.body,
                                    !.tmp = [exists |-> TRUE, content |-> <<>>]]
    /\ UNCHANGED <<files, now, procs, ticks, calls, menu, first, sched, dir>>

\* copyContext from the form to the temp file, one round of io.Copy: the
\* context is looked at, then the form is read and what was read is written;
\* after the last round come Sync and Seek
PutCopy ==
    /\ web.op = "PutBlob" /\ web.pc = "p_copy"
    /\ IF ctxDone(web)
       THEN web' = Fail([web EXCEPT !.cpErr = ErrCanceled], StatusInternalServerError)
       ELSE \/ \E k \in 1..Min(copyBuf, Len(web.src)) :
                 web' = [Reading(web) EXCEPT
                            !.tmp.content = web.tmp.content \o SubSeq(web.src, 1, k),
                            !.src = SubSeq(web.src, k + 1, Len(web.src))]
            \/ /\ web.src = <<>>
               /\ web' = [Reading(web) EXCEPT !.pc = "p_put"]
            \/ web' = Fail([Reading(web) EXCEPT !.cpErr = ErrRead], StatusInternalServerError)
    /\ UNCHANGED <<files, now, procs, ticks, calls, menu, first, sched, dir>>

\* id, _, err := s.localCache.Put(f)
PutCache ==
    /\ web.op = "PutBlob" /\ web.pc = "p_put"
    /\ \E r \in {cachePut(files, web.tmp.content, now)} :
         /\ files' = r.f
         /\ web' = IF r.err # Nil
                   THEN Fail(Logged(web, "CachePut", r.id), StatusInternalServerError)
                   ELSE [Logged(web, "CachePut", r.id) EXCEPT !.pc = "p_get", !.id = r.id]
    /\ UNCHANGED <<now, procs, ticks, calls, menu, first, sched, dir>>

\* cacheReader, _, err := s.localCache.Get(id)
PutReopen ==
    /\ web.op = "PutBlob" /\ web.pc = "p_get"
    /\ \E r \in {cacheGet(files, web.id, now)} :
         /\ files' = r.f
         /\ web' = IF r.err # Nil
                   THEN Fail(Logged(web, "CacheGet", web.id), StatusInternalServerError)
                   ELSE [Logged(web, "CacheGet", web.id) EXCEPT !.pc = "p_ups", !.src = r.data]
    /\ UNCHANGED <<now, procs, ticks, calls, menu, first, sched, dir>>

\* a handler that passes another ID to the upstream
upstreamID_other(w) == Unknown

\* the ID the handler passes to the upstream: the one Cache.Put returned

upstreamID(w) == w.id

\* s.ups.Put(id, cacheReader) fails, or stores what the reader gives; then
\* the reply: 201 and the URL of the blob
PutUpstream ==
    /\ web.op = "PutBlob" /\ web.pc = "p_ups"
    /\ LET w == Logged(web, "UpstreamPut", upstreamID(web))
       IN  \/ web' = Fail(w, StatusInternalServerError)
           \/ web' = [Cleanup(w) EXCEPT
                         !.ups[upstreamID(web)] = [exists |-> TRUE, content |-> web.src],
                         !.pc = "done", !.ret = 0, !.status = StatusCreated,
                         !.out = Location(Encode58(IDBytes(web.id)), web.form.name)]
    /\ UNCHANGED <<files, now, procs, ticks, calls, menu, first, sched, dir>>

Forms ==
    {NoForm} \cup {[file |-> TRUE, body |-> b, name |-> n] : b \in Bodies, n \in FileNames}

WebNext ==
    \/ \E param \in Params : GetBlob(param)
    \/ GetCache
    \/ GetUpstream
    \/ GetTemp
    \/ ProdCopy
    \/ ProdSend
    \/ ConsRecv
    \/ ConsSeek
    \/ ConsWrite
    \/ Cancel
    \/ GetWait
    \/ GetPut
    \/ \E form \in Forms : PutBlob(form)
    \/ PutCopy
    \/ PutCache
    \/ PutReopen
    \/ PutUpstream

NoBlob == [exists |-> FALSE, content |-> <<>>]

\* an upstream that holds the blobs of S under their IDs
Upstream(S) ==
    [id \in WebIDs |-> IF \E b \in S : Hash(b) = id
                       THEN [exists |-> TRUE, content |-> CHOOSE b \in S : Hash(b) = id]
                       ELSE NoBlob]

\* the longest blob
Long == [i \in 1..WebLen |-> 1]

\* The handler serves one request on a cache that holds the entry of Target
\* with the index absent, empty or as Put wrote it and the data file in any
\* state, or two requests on an empty cache; the upstream holds nothing,
\* Target or the longest blob.  The files were written an hour ago.
WebInit ==
    /\ \E a \in {<<>>, IndexRecord(Hash(Target), Len(Target), 0)},
          d \in DataContents(Target), ea, ed \in BOOLEAN, n \in 1..WebCalls :
          /\ files = [nm \in WebNames |->
                       IF nm = fileName(Hash(Target), "a") /\ ea THEN MkFile(a, 0)
                       ELSE IF nm = fileName(Hash(Target), "d") /\ ed THEN MkFile(d, 0)
                       ELSE NoFile(0)]
          /\ n > 1 => ~ea /\ ~ed
          /\ \E S \in {{}, {Target}, {Long}} : web = NewWeb(Upstream(S), n)
    /\ sched = NoSched
    /\ dir = Opened
    /\ now = mtimeInterval
    /\ ticks = 0
    /\ procs = [p \in Procs |-> Idle]
    /\ calls = [p \in Procs |-> 0]
    /\ menu = {}
    /\ first = files

WebSpec == WebInit /\ [][WebNext]_vars

\* an upstream that returns the bytes c for the ID of the blob b
Wrong(b, c) ==
    [id \in WebIDs |-> IF id = Hash(b) THEN [exists |-> TRUE, content |-> c] ELSE NoBlob]

\* The handler serves requests on a cache that is empty or holds the entry of
\* Target; the upstream holds the empty blob, or Target, or returns for the
\* ID of Target a part of Target, or nothing at all.
UpInit ==
    /\ \E e \in BOOLEAN, n \in 1..WebCalls :
          /\ files = [nm \in WebNames |->
                       IF e /\ nm[2] = Hash(Target) THEN EntryOf(nm, Target, 0)
                       ELSE NoFile(0)]
          /\ \E u \in {Upstream({<<>>}), Upstream({Target}),
                        Wrong(Target, <<1>>), Wrong(Target, <<>>)} : web = NewWeb(u, n)
    /\ sched = NoSched
    /\ dir = Opened
    /\ now = mtimeInterval
    /\ ticks = 0
    /\ procs = [p \in Procs |-> Idle]
    /\ calls = [p \in Procs |-> 0]
    /\ menu = {}
    /\ first = files

UpSpec == UpInit /\ [][WebNext]_vars

----------------------------------------------------------------------------
(* Properties of the handler.                                               *)

Replied(op) == web.op = op /\ web.pc = "done"

\* the id segment of a blob's URL: strings.Split(blobURL, "/")[4]
IdSegment(url) == Split(url)[5]

\* C12: Handler round-trip.  After PutBlob of the bytes b with the file name
\* n has replied 201 with the location L, a GetBlob with the id segment of L
\* returns nil and replies 200 with a body equal to b.
C12_HandlerRoundTrip ==
    (/\ Replied("GetBlob")
     /\ web.last.op = "PutBlob" /\ web.last.status = StatusCreated
     /\ Len(Split(web.last.out)) >= 5
     /\ web.param = IdSegment(web.last.out)) =>
        /\ web.ret = 0 /\ web.status = StatusOK
        /\ web.out = web.last.form.body

\* a GetBlob has replied to the id of a location that a PutBlob of Target
\* with a file name that is escaped in the URL had returned
C12_Witness ==
    /\ Replied("GetBlob")
    /\ web.last.op = "PutBlob" /\ web.last.status = StatusCreated
    /\ web.last.form.body = Target /\ web.last.form.name = <<"t", "?">>
    /\ web.param = IdSegment(web.last.out)
    /\ web.status = StatusOK /\ web.out = Target

\* the request went to the upstream and got a reader
Fetched == \E i \in 1..Len(web.log) : web.log[i].call = "UpstreamGet" /\ web.temps > 0

\* C13: Cold-cache fetch-through.  The local cache being empty and the
\* upstream returning b for the id, a GetBlob(id) that returns nil has
\* replied 200 and written to the response exactly the bytes of b, in order,
\* whatever the interleaving of producer and consumer and the sizes of the
\* reads; afterwards the local cache holds b under the id.
C13_FetchThrough ==
    (/\ Replied("GetBlob") /\ web.ret = 0 /\ Fetched
     /\ \A nm \in WebNames : ~web.pre[nm].exists) =>
        /\ web.ups[web.id].exists
        /\ web.status = StatusOK
        /\ web.out = web.ups[web.id].content
        /\ web.writtenBytes = Len(web.ups[web.id].content)
        /\ cacheGet(files, web.id, now).err = Nil
        /\ cacheGet(files, web.id, now).data = web.ups[web.id].content

\* a GetBlob has fetched the longest blob through: the consumer wrote it in
\* more than one chunk, and the cache holds it
C13_Witness ==
    /\ Replied("GetBlob") /\ web.ret = 0 /\ Fetched
    /\ \A nm \in WebNames : ~web.pre[nm].exists
    /\ web.out = Long /\ web.nr = 1
    /\ files[fileName(web.id, "d")].content = Long

\* C14: Dual-sink ordering.  While the two tasks of a miss run, the
\* consumer's read offset writtenBytes never exceeds the offset the producer
\* has written the temp file to, it never decreases, and one iteration of the
\* consumer advances it by at most min(pos - writtenBytes, the buffer's
\* length), pos being the offset the iteration has read from the file.
C14_DualSinkOrdering ==
    /\ [](web.pc = "g_wait" =>
            /\ web.writtenBytes <= web.pos
            /\ web.pos <= Len(web.tmp.content))
    /\ [][web.pc = "g_wait" =>
            /\ web.writtenBytes' >= web.writtenBytes
            /\ web.writtenBytes' - web.writtenBytes
                  <= Min(web.pos - web.writtenBytes, bufSize)]_vars

\* the consumer has written a buffer full and is behind the producer, which
\* has written the whole blob to the temp file
C14_Witness ==
    /\ web.pc = "g_wait" /\ web.cons = "recv"
    /\ web.writtenBytes = bufSize /\ web.nr = bufSize
    /\ web.tmp.content = Long /\ web.pos = WebLen

\* one request on an empty cache, the upstream holding the longest blob
XferInit ==
    /\ files = [nm \in WebNames |-> NoFile(0)]
    /\ web = NewWeb(Upstream({Long}), 1)
    /\ sched = NoSched
    /\ dir = Opened
    /\ now = mtimeInterval
    /\ ticks = 0
    /\ procs = [p \in Procs |-> Idle]
    /\ calls = [p \in Procs |-> 0]
    /\ menu = {}
    /\ first = files

\* the handler's goroutine and the two tasks take the steps they can take;
\* the upstream, the client and the request's context are not obliged to
\* anything
FairWebSpec ==
    /\ XferInit /\ [][WebNext]_vars
    /\ WF_vars(ProdCopy) /\ WF_vars(ProdSend)
    /\ WF_vars(ConsRecv) /\ WF_vars(ConsSeek) /\ WF_vars(ConsWrite)
    /\ WF_vars(GetWait) /\ WF_vars(GetPut)

\* C15: Cancellation closes both tasks.  Once the producer or the consumer
\* of a miss has failed (an upstream read error, a client write error, a
\* cancelled request), both tasks terminate, the group's wait returns and
\* GetBlob returns an error: no task stays blocked forever.
C15_FailureTerminates ==
    (web.pc = "g_wait" /\ (web.perr \/ web.cerr)) ~> (Replied("GetBlob") /\ web.ret # 0)

\* the calls of cache and upstream a request has made, in order
CallsMade == [i \in 1..Len(web.log) |-> web.log[i].call]

\* C16: PutBlob write-through.  PutBlob replies 201 only after Cache.Put has
\* committed the blob and, after that, Upstream.Put(ID, reader) has stored
\* it: the calls came in that order, the ID passed to Upstream.Put is the ID
\* Cache.Put returned, and the reply's body is the base URL, a '/', the
\* Base58 of that ID, a '/', and the escaped file name.  When Upstream.Put
\* was called and did not succeed, the reply is 500.
C16_WriteThrough ==
    Replied("PutBlob") =>
        /\ web.status = StatusCreated =>
              /\ CallsMade = <<"CachePut", "CacheGet", "UpstreamPut">>
              /\ \A i \in 1..Len(web.log) : web.log[i].id = web.log[1].id
              /\ web.log[1].id = Hash(web.form.body)
              /\ cacheGet(files, web.log[1].id, now).err = Nil
              /\ cacheGet(files, web.log[1].id, now).data = web.form.body
              /\ web.ups[web.log[1].id] = [exists |-> TRUE, content |-> web.form.body]
              /\ Len(Split(web.out)) = Len(Split(baseURL)) + 2
              /\ SubSeq(web.out, 1, Len(baseURL) + 1) = baseURL \o <<"/">>
              /\ Decode58(IdSegment(web.out)).ok
              /\ Decode58(IdSegment(web.out)).bytes = IDBytes(web.log[1].id)
              /\ Split(web.out)[6] = PathEscape(web.form.name)
              /\ web.ret = 0
        /\ (Len(web.log) = 3 /\ web.status # StatusCreated) =>
              /\ web.status = StatusInternalServerError
              /\ web.ret = StatusInternalServerError
              /\ web.out = <<>>

\* a PutBlob of the longest blob, with a file name that is escaped, has
\* replied 201
C16_Witness ==
    /\ Replied("PutBlob") /\ web.status = StatusCreated
    /\ web.form.body = Long /\ web.form.name = <<"%", "t">>
    /\ web.ups[Hash(Long)].exists
    /\ files[fileName(Hash(Long), "d")].content = Long

\* every file of the cache is there or not as before, with the same content
SameContent(f, g) ==
    \A nm \in WebNames : f[nm].exists = g[nm].exists /\ f[nm].content = g[nm].content

\* C17: Upstream not-found against failure.  On a cache miss, GetBlob
\* replies 404 if and only if Upstream.Get returned ErrNotFound, and 500 for
\* any other error of Upstream.Get; in both cases no temp file was created,
\* no byte of a body was written, and the local cache holds what it held:
\* the same files with the same content.  (The lookup that missed may have
\* refreshed the mtime of an index file whose data file is missing.)
C17_UpstreamErrors ==
    (Replied("GetBlob") /\ web.uerr # "") =>
        /\ web.status = StatusNotFound <=> web.uerr = ErrNotFound
        /\ web.uerr # ErrNotFound => web.status = StatusInternalServerError
        /\ web.ret = web.status
        /\ web.temps = 0 /\ ~web.tmp.exists
        /\ web.out = <<>> /\ web.writtenBytes = 0
        /\ SameContent(files, web.pre)

\* GetBlob has replied 500 to an error of the upstream that was not
\* ErrNotFound, for an id whose index the cache holds without the data file
C17_Witness ==
    /\ Replied("GetBlob") /\ web.uerr = ErrUpstream
    /\ web.status = StatusInternalServerError
    /\ web.id = Hash(Target)
    /\ web.pre[fileName(web.id, "a")].exists /\ ~web.pre[fileName(web.id, "d")].exists

\* the cache had a complete entry of the id when the request came
Hit == cacheGet(web.pre, web.id, now).err = Nil

\* C18: Cache hit bypasses the upstream.  On a cache hit GetBlob sets
\* Content-Length to the Size of the entry, replies 200, streams the bytes of
\* the cached data file and returns nil; it calls the cache once, never
\* calls Upstream.Get and creates no temp file, and the upstream and the
\* content of the cache are as they were.
C18_HitBypassesUpstream ==
    (Replied("GetBlob") /\ ~badParam(web.param) /\ Hit) =>
        /\ web.clen = cacheGet(web.pre, web.id, now).entry.Size
        /\ web.clen = Len(web.out)
        /\ web.status = StatusOK /\ web.ret = 0
        /\ web.out = web.pre[fileName(web.id, "d")].content
        /\ CallsMade = <<"CacheGet">>
        /\ web.temps = 0 /\ web.uerr = ""
        /\ SameContent(files, web.pre)

\* GetBlob has served Target from the cache while the upstream holds nothing
C18_Witness ==
    /\ Replied("GetBlob") /\ Hit
    /\ web.id = Hash(Target) /\ web.out = Target /\ web.clen = Len(Target)
    /\ \A id \in WebIDs : ~web.ups[id].exists

\* the index of the id records a size, and the data file is missing or of
\* another length
Incomplete(f, id) ==
    /\ f[fileName(id, "a")].exists /\ WellFormed(f[fileName(id, "a")].content, id)
    /\ \/ ~f[fileName(id, "d")].exists
       \/ ~FieldIs(SizeField(f[fileName(id, "a")].content), Len(f[fileName(id, "d")].content))

\* C19: Incomplete entry is a miss.  When the index of the id records the
\* size N and the data file is missing or has another length, the cache's
\* error matches os.ErrNotExist and GetBlob goes on to Upstream.Get: it does
\* not reply 500 without having asked the upstream.
C19_IncompleteIsMiss ==
    (Replied("GetBlob") /\ ~badParam(web.param) /\ Incomplete(web.pre, web.id)) =>
        /\ IsNotExist(cacheGet(web.pre, web.id, now).err)
        /\ CallsMade # <<>> /\ CallsMade[1] = "CacheGet"
        /\ Len(CallsMade) >= 2 /\ CallsMade[2] = "UpstreamGet"

----------------------------------------------------------------------------
(* Further properties of the cache under concurrent calls.                  *)

C22_PutDuringTrim ==
    [][\A p \in Procs : \A q \in Procs \ {p} :
          (/\ procs[p].op = "Put" /\ Running(procs[p]) /\ procs[p].pre = <<>>
           /\ procs[q].op = "Trim"
           /\ procs'[p].pc = "done" /\ procs'[p].err = Nil) =>
              (Valid(files, procs[p].id))']_vars

----------------------------------------------------------------------------
(* Further properties of the handlers.                                      *)

C30_NotificationNeverBlocks ==
    (web.pc = "g_wait" /\ web.prod = "send" /\ web.cons = "done") => send(web.ch).ok

----------------------------------------------------------------------------
(* The trim scheduler (part_002:64-78).  NewStorage starts a ticker and a   *)
(* goroutine that selects on the parent context and on the ticker's         *)
(* channel; on a tick it calls localCache.Trim(cacheMaxBytes) and logs its   *)
(* error.  The ticker's channel holds one tick; the ticker is never stopped. *)

\* ticks of the ticker in a run
MaxFires == 3

\* the buffer of a time.Ticker's channel
tickerCap == 1

\* values of cacheMaxBytes
SchedBytes == {0, 1, 2}

NewSched(maxBytes) ==
    [pc |-> "select", maxBytes |-> maxBytes, tick |-> 0, cancelled |-> FALSE,
     call |-> Idle, running |-> 0,
     \* history: Trims started, ticks fired, ticks fired during the Trim in
     \* progress and during the one before, Trims started since the last
     \* tick fired, Trims started after the cancellation, errors logged
     trims |-> 0, fired |-> 0, during |-> 0, lastDuring |-> 0, sinceFire |-> 0,
     late |-> 0, errs |-> 0]

\* a ticker that queues the ticks nobody has received yet
fire_queued(tick) == tick + 1

\* the ticker drops a tick when the one before has not been received
fire(tick) == IF tick < tickerCap THEN tick + 1 ELSE tick

\* cacheTrimInterval has elapsed
TickerFire ==
    /\ sched.pc # "none" /\ sched.fired < MaxFires
    /\ sched' = [sched EXCEPT !.tick = fire(sched.tick), !.fired = @ + 1,
                              !.during = IF sched.pc = "trim" THEN @ + 1 ELSE @,
                              !.sinceFire = 0]
    /\ UNCHANGED <<files, now, procs, ticks, calls, menu, first, web, dir>>

\* the parent context is cancelled
CancelCtx ==
    /\ sched.pc # "none" /\ ~sched.cancelled
    /\ sched' = [sched EXCEPT !.cancelled = TRUE]
    /\ UNCHANGED <<files, now, procs, ticks, calls, menu, first, web, dir>>

\* select, case <-ctx.Done(): return
SchedDone ==
    /\ sched.pc = "select" /\ sched.cancelled
    /\ sched' = [sched EXCEPT !.pc = "stopped"]
    /\ UNCHANGED <<files, now, procs, ticks, calls, menu, first, web, dir>>

\* select, case <-ticker.C: Trim is called.  When both cases are ready,
\* select takes either.
SchedTick ==
    /\ sched.pc = "select" /\ sched.tick > 0
    /\ sched' = [sched EXCEPT !.tick = @ - 1, !.pc = "trim",
                              !.call = CallTrim(sched.maxBytes, now),
                              !.running = @ + 1, !.trims = @ + 1, !.during = 0,
                              !.sinceFire = @ + 1,
                              !.late = IF sched.cancelled THEN @ + 1 ELSE @]
    /\ UNCHANGED <<files, now, procs, ticks, calls, menu, first, web, dir>>

\* localCache.Trim returns to the loop; its error is logged
TrimReturn(s, p) ==
    [s EXCEPT !.pc = "select", !.call = p, !.running = @ - 1,
              !.lastDuring = s.during,
              !.errs = IF p.err # Nil THEN @ + 1 ELSE @]

\* one system call of the Trim in progress; the walk of Size may fail
SchedTrim ==
    /\ sched.pc = "trim"
    /\ \/ \E r \in {Step(files, sched.call, now)} :
            /\ files' = r.f
            /\ sched' = IF Running(r.p) THEN [sched EXCEPT !.call = r.p]
                        ELSE TrimReturn(sched, r.p)
       \/ /\ sched.call.pc = "sz_dir"
          /\ files' = files
          /\ sched' = TrimReturn(sched, Done(sched.call, ENOENT))
    /\ UNCHANGED <<now, procs, ticks, calls, menu, first, web, dir>>

SchedNext == TickerFire \/ CancelCtx \/ SchedDone \/ SchedTick \/ SchedTrim

\* NewStorage has returned: the cache is empty or holds the entry of Target,
\* put at time 0, which is recent or older than trimLimit
SchedInit ==
    /\ \E e \in BOOLEAN :
          files = [nm \in Names |-> IF e /\ nm[2] = Hash(Target) THEN EntryOf(nm, Target, 0)
                                    ELSE NoFile(0)]
    /\ now \in {mtimeInterval, trimLimit + mtimeInterval + 1}
    /\ \E m \in SchedBytes : sched = NewSched(m)
    /\ ticks = 0
    /\ procs = [p \in Procs |-> Idle]
    /\ calls = [p \in Procs |-> 0]
    /\ menu = {}
    /\ first = files
    /\ web = NoWeb
    /\ dir = Opened

SchedSpec == SchedInit /\ [][SchedNext]_vars

\* C24: Cancellation.  Once the parent context is cancelled the scheduler
\* starts no further Trim, also when a tick is pending at that moment.
C24_NoTrimAfterCancel ==
    [][sched.cancelled => sched'.trims = sched.trims]_vars

\* C25: The trim task runs if and only if maxBytes > 0: a Trim is called by
\* the scheduler only for a positive maxBytes.
C25_TaskIffPositive ==
    sched.trims > 0 => sched.maxBytes > 0

\* C26: No overlap, no queue.  At most one Trim of the scheduler runs at any
\* time, at most one tick is pending, every Trim that starts takes the one
\* pending tick, and between two ticks of the ticker at most one Trim starts:
\* the ticks that elapse during a long Trim cause one Trim after it.
C26_NoOverlapNoQueue ==
    /\ [](sched.running <= 1 /\ sched.tick <= 1 /\ sched.sinceFire <= 1)
    /\ [][sched'.trims # sched.trims =>
             /\ sched.running = 0 /\ sched.tick = 1 /\ sched'.tick = 0
             /\ sched'.trims = sched.trims + 1]_vars

\* the second Trim has started after a first one during which two ticks
\* elapsed, and no tick is left pending
C26_Witness ==
    /\ sched.pc = "trim" /\ sched.trims = 2 /\ sched.lastDuring = 2
    /\ sched.fired = 3 /\ sched.tick = 0

----------------------------------------------------------------------------
(* Open (cache.go:51-78): the directory must be there and be a directory;   *)
(* the 256 buckets are made with MkdirAll; then the cache is returned.       *)

ErrNotDir == "not a directory"
ErrMkdir == "mkdir failed"

\* buckets at which MkdirAll is made to fail in a run
FailAt == {0, 128}

\* what Open may find: nothing, a file, or a directory with some buckets
Found(kind, buckets) ==
    [kind |-> kind, buckets |-> buckets, tried |-> FALSE, cache |-> FALSE, err |-> Nil]

OpenDir ==
    /\ ~dir.tried
    /\ \/ /\ dir.kind = "absent"
          /\ dir' = [dir EXCEPT !.tried = TRUE, !.err = ENOENT]
       \/ /\ dir.kind = "file"
          /\ dir' = [dir EXCEPT !.tried = TRUE, !.err = ErrNotDir]
       \/ /\ dir.kind = "dir"
          /\ dir' = [dir EXCEPT !.tried = TRUE, !.cache = TRUE,
                                !.buckets = dir.buckets \cup OpenBuckets]
       \/ /\ dir.kind = "dir"
          /\ \E i \in FailAt \ dir.buckets :
                dir' = [dir EXCEPT !.tried = TRUE, !.err = ErrMkdir,
                                   !.buckets = dir.buckets \cup {j \in OpenBuckets : j < i}]
    /\ UNCHANGED <<files, now, procs, ticks, calls, menu, first, web, sched>>

\* two goroutines that will use the cache Open returns; the directory holds
\* no bucket, one bucket, or all of them with or without the old entry of Target
OpenInit ==
    /\ \E k \in {"absent", "file", "dir"} :
       \E b \in {{}, {0}, OpenBuckets} :
       \E e \in BOOLEAN :
          /\ k # "dir" => b = {}
          /\ e => b = OpenBuckets
          /\ dir = Found(k, b)
          /\ files = [nm \in Names |-> IF e /\ nm[2] = Hash(Target) THEN EntryOf(nm, Target, 0)
                                       ELSE NoFile(0)]
    /\ now = trimLimit + mtimeInterval + 1
    /\ ticks = ConcTicks
    /\ procs = [p \in Procs |-> Idle]
    /\ calls = [p \in Procs |-> MaxCalls]
    /\ menu = Calls({Target}, {Hash(Target)}, {0})
    /\ first = files
    /\ web = NoWeb
    /\ sched = NoSched

OpenNext == OpenDir \/ Next

OpenSpec == OpenInit /\ [][OpenNext]_vars

\* C27: Directory layout.  A cache is returned only for a directory that is
\* there and is a directory; Open on anything else fails.  Once a cache is
\* returned, and after any calls of Put, Get, GetFile, Size and Trim, all 256
\* buckets are there, and every index or data file is in the bucket of the
\* first byte of its ID, never next to the buckets.
C27_Layout ==
    /\ dir.cache => dir.kind = "dir" /\ dir.err = Nil
    /\ (dir.tried /\ dir.kind # "dir") => ~dir.cache /\ dir.err # Nil
    /\ dir.cache =>
          /\ Cardinality(dir.buckets) = 256 /\ dir.buckets = 0..255
          /\ \A nm \in DOMAIN files : files[nm].exists =>
                nm[1] = FirstByte(nm[2]) /\ nm[1] \in dir.buckets

\* Open has made the buckets of a directory that had one, and a Put and a
\* Trim have returned: the entry of Target is in its bucket
C27_Witness ==
    /\ dir.cache /\ Valid(files, Hash(Target))
    /\ ~first[Data(Hash(Target))].exists
    /\ \E p \in Procs : PutReturned(p)
    /\ \E p \in Procs : Returned(p, "Trim")

Recorded(f, id) ==
    IF f[Index(id)].exists /\ WellFormed(f[Index(id)].content, id)
    THEN CHOOSE n \in 0..(Len(Target) + 1) : FieldIs(SizeField(f[Index(id)].content), n)
    ELSE 0

RECURSIVE SumRecorded(_, _)
SumRecorded(f, ids) ==
    IF ids = {} THEN 0
    ELSE LET id == CHOOSE x \in ids : TRUE
         IN  Recorded(f, id) + SumRecorded(f, ids \ {id})

\* C29: Size.  Size() returns with no error the sum of the sizes that the
\* well-formed index files record; an index file whose content cannot be
\* parsed, or whose name is not the hex of an ID, adds 0 and does not make
\* Size() fail.
C29_SizeSum ==
    \A p \in Procs : (Returned(p, "Size") /\ procs[p].pre # <<>>) =>
        /\ procs[p].err = Nil
        /\ procs[p].total = SumRecorded(procs[p].pre, IDs)

----------------------------------------------------------------------------
(* Further properties of Put, Get and Trim.                                 *)

\* what the copy pass reads of the source: its first size bytes, if there
CopyRead(r) == SubSeq(r.blob2, 1, Min(r.size, Len(r.blob2)))

\* the data file of the Put that p made is empty or gone, and the index file
\* is as it was before the Put
Undone(p) ==
    LET r == procs[p]
    IN  /\ files[Data(r.id)].exists => files[Data(r.id)].content = <<>>
        /\ files[Index(r.id)] = r.pre[Index(r.id)]

\* the Put that p made had to write the data file of a non-empty blob
MustWrite(p) ==
    LET r == procs[p]
    IN  /\ Returned(p, "Put") /\ r.pre # <<>> /\ r.size > 0
        /\ ~(r.pre[Data(r.id)].exists /\ r.pre[Data(r.id)].content = r.blob)

\* the last byte is written only when the size bytes read in the copy pass
\* hash to the ID, and a copy pass that reads other bytes than the hashing
\* pass did, or too few, makes Put return an error
VerifyFirst ==
    \A p \in Procs :
        LET r == procs[p]
        IN  /\ (r.op = "Put" /\ r.pc = "cf_chtimes") =>
                  Len(r.blob2) >= r.size /\ Hash(CopyRead(r)) = r.id
            /\ (MustWrite(p) /\ CopyRead(r) # r.blob) => r.err # Nil

\* C31 as stated: Verify-then-commit.  In a Put of a non-empty blob that
\* writes the data file, the last byte is written only when the size bytes
\* read in the copy pass hash to the ID.  When the copy pass reads other bytes
\* than the hashing pass did, or any I/O step fails, Put returns an error, the
\* data file is empty or removed, and the index file is as it was before.
C31_AnyFailure ==
    /\ VerifyFirst
    /\ \A p \in Procs : (MustWrite(p) /\ procs[p].err # Nil) => Undone(p)

\* C31, amended: as above, for the I/O steps after the data file was opened
\* and up to its close (seek, copy, read, write, close); a failure to open
\* the data file, or of the Chtimes after the close, makes Put return an
\* error and leaves the index file alone, but the data file is as opening or
\* writing it left it.
C31_VerifyThenCommit ==
    /\ VerifyFirst
    /\ \A p \in Procs :
          (MustWrite(p) /\ procs[p].err # Nil) =>
              /\ files[Index(procs[p].id)] = procs[p].pre[Index(procs[p].id)]
              /\ procs[p].fault \notin {"open", "chtimes"} => Undone(p)

\* a Put of Target whose copy pass read a changed last byte has returned
\* 'content changed': the data file, which held a part of Target before and
\* the first byte after the copy, is empty, and the index file is untouched
C31_Witness ==
    \E p \in Procs :
        /\ Returned(p, "Put") /\ procs[p].err = ErrChanged
        /\ procs[p].blob = Target /\ procs[p].blob2 = <<1, 0>>
        /\ procs[p].pre # <<>>
        /\ procs[p].pre[Data(Hash(Target))].content = <<1>>
        /\ procs[p].pre[Index(Hash(Target))].exists
        /\ files[Data(Hash(Target))].content = <<>>
        /\ files[Index(Hash(Target))] = procs[p].pre[Index(Hash(Target))]

\* the times of a Trim(0) that follows the Get or GetFile which p made, less
\* than trimLimit after it
SoonAfter(p) == {tt \in {now, procs[p].tnow + trimLimit - 1} : tt - procs[p].tnow < trimLimit}

\* the directory after a Trim(0) at time tt
AfterTrim(tt) == Result(files, CallTrim(0, tt), tt).f

\* C32 as stated: a successful Get(id) refreshes the mtime of id's data file
\* (subject to hysteresis), so that the data file of an entry whose last Get
\* happened less than trimLimit ago is still there after Trim(0).
C32_GetKeepsDataFile ==
    \A p \in Procs :
        (/\ Returned(p, "Get") /\ procs[p].err = Nil
         /\ procs[p].pre # <<>> /\ procs[p].pre[Data(procs[p].id)].exists) =>
            \A tt \in SoonAfter(p) : AfterTrim(tt)[Data(procs[p].id)].exists

\* C32, amended: a successful Get(id) refreshes the mtime of id's index file
\* (subject to hysteresis) and leaves the data file as it is, so that the
\* index file of an entry whose last Get happened less than trimLimit ago is
\* still there, unchanged, after Trim(0).
C32_GetKeepsIndexFile ==
    \A p \in Procs :
        (Returned(p, "Get") /\ procs[p].err = Nil /\ procs[p].pre # <<>>) =>
            LET a == Index(procs[p].id)
                d == Data(procs[p].id)
            IN  /\ files[d] = procs[p].pre[d]
                /\ files[a].exists /\ files[a].content = procs[p].pre[a].content
                /\ files[a].mtime > procs[p].tnow - mtimeInterval
                /\ \A tt \in SoonAfter(p) : AfterTrim(tt)[a] = files[a]

\* a Get has refreshed the mtime of the index file, and the Trim(0) that
\* comes trimLimit - 1 later keeps the index file and removes the data file
C32_Witness ==
    \E p \in Procs :
        /\ Returned(p, "Get") /\ procs[p].err = Nil /\ procs[p].pre # <<>>
        /\ procs[p].pre[Data(procs[p].id)].exists
        /\ files[Index(procs[p].id)].mtime > procs[p].pre[Index(procs[p].id)].mtime
        /\ now = procs[p].tnow
        /\ AfterTrim(now + trimLimit - 1)[Index(procs[p].id)].exists
        /\ ~AfterTrim(now + trimLimit - 1)[Data(procs[p].id)].exists

\* the file that the last used of the call which p made was about: the index
\* file in a Get, the data file in a GetFile
Accessed(p) == IF procs[p].op = "Get" THEN Index(procs[p].id) ELSE Data(procs[p].id)

\* C33: Hysteresis.  An access through used(file) at time t changes the
\* file's mtime only if t - mtime >= mtimeInterval, and then the mtime becomes
\* the time of the Chtimes; otherwise the mtime is left as it is.  After the
\* access the file's mtime is later than t - mtimeInterval.
C33_Hysteresis ==
    /\ [](\A p \in Procs :
            (/\ procs[p].op \in {"Get", "GetFile"} /\ procs[p].pc = "done"
             /\ procs[p].err = Nil /\ procs[p].pre # <<>>) =>
                LET nm == Accessed(p)
                    old == procs[p].pre[nm].mtime
                IN  /\ procs[p].tnow - old < mtimeInterval => files[nm].mtime = old
                    /\ procs[p].tnow - old >= mtimeInterval =>
                          files[nm].mtime >= procs[p].tnow /\ files[nm].mtime <= now
                    /\ files[nm].mtime > procs[p].tnow - mtimeInterval
                    /\ files[nm].content = procs[p].pre[nm].content)
    /\ [][\A p \in Procs :
            (procs[p].pc = "u_chtimes" /\ procs'[p] # procs[p]
             /\ files[procs[p].uname].exists) =>
                files'[procs[p].uname].mtime = now]_vars

\* a GetFile found the data file exactly mtimeInterval old and has set its
\* mtime to the time of the access
C33_Witness ==
    \E p \in Procs :
        /\ Returned(p, "GetFile") /\ procs[p].err = Nil /\ procs[p].pre # <<>>
        /\ procs[p].tnow - procs[p].pre[Data(procs[p].id)].mtime = mtimeInterval
        /\ files[Data(procs[p].id)].mtime = procs[p].tnow

\* a Get found the index file less than mtimeInterval old and has left its
\* mtime alone
LeftAloneWitness ==
    \E p \in Procs :
        /\ Returned(p, "Get") /\ procs[p].err = Nil /\ procs[p].pre # <<>>
        /\ procs[p].tnow = 1
        /\ files[Index(procs[p].id)].mtime = 0

\* no call is in progress
Quiet == \A p \in Procs : ~Running(procs[p])

\* C37 as stated: after any sequence of Put, Get, GetFile and Trim(0), the
\* index file of an ID exists if and only if its data file exists.
C37_IndexIffData ==
    Quiet => \A id \in IDs : files[Index(id)].exists <=> files[Data(id)].exists

\* C37, amended: Trim(0) removes each file of an entry by that file's own
\* mtime: a file is there after Trim if and only if it was there before and
\* its mtime is not before the cutoff.  So Trim removes both files of an
\* entry, or neither, when their mtimes lie on the same side of the cutoff,
\* and removes one and keeps the other when they do not.
C37_EachFileByItsMtime ==
    \A p \in Procs :
        (Returned(p, "Trim") /\ procs[p].maxBytes = 0 /\ procs[p].pre # <<>>) =>
            \A id \in IDs :
                LET a == Index(id)
                    d == Data(id)
                    old(nm) == procs[p].pre[nm].mtime < cutoff(procs[p])
                IN  /\ \A nm \in {a, d} :
                          files[nm].exists <=> (procs[p].pre[nm].exists /\ ~old(nm))
                    /\ (procs[p].pre[a].exists /\ procs[p].pre[d].exists
                            /\ (old(a) <=> old(d))) =>
                          (files[a].exists <=> files[d].exists)

\* after a Put, a Get that refreshed the index file, and a Trim(0), the
\* index file is there and the data file is not
C37_Witness ==
    \E p \in Procs :
        /\ Returned(p, "Trim") /\ procs[p].maxBytes = 0 /\ procs[p].pre # <<>>
        /\ procs[p].pre[Data(Hash(Target))].exists
        /\ files[Index(Hash(Target))].exists
        /\ ~files[Data(Hash(Target))].exists

\* after a Put, a GetFile that refreshed the data file only, and a Trim(0),
\* the data file is there and the index file is not
DataWithoutIndex ==
    \E p \in Procs :
        /\ Returned(p, "Trim") /\ procs[p].maxBytes = 0 /\ procs[p].pre # <<>>
        /\ procs[p].pre[Index(Hash(Target))].exists
        /\ files[Data(Hash(Target))].exists
        /\ ~files[Index(Hash(Target))].exists

\* the times of a Trim(0) that follows the Put which p made, less than
\* trimLimit after the Put returned; the Put returns with the Chtimes of the
\* index file
SoonAfterPut(p) ==
    LET t == files[Index(procs[p].id)].mtime
    IN  {tt \in {now, t + trimLimit - 1} : tt >= now /\ tt < t + trimLimit}

\* C38: if Put(b) returned success at time t, then after a Trim(0) at any
\* time earlier than t + trimLimit GetFile(id) succeeds, also when a matching
\* data file of id, with an older mtime, was there before the Put.
C38_PutSurvivesTrim ==
    \A p \in Procs :
        (Returned(p, "Put") /\ procs[p].err = Nil /\ procs[p].pre # <<>>) =>
            \A tt \in SoonAfterPut(p) :
                Result(AfterTrim(tt), CallGetFile(procs[p].id), tt).p.err = Nil

\* the same of the Puts that wrote the data file, less than mtimeInterval
\* before they returned
WrittenSurvivesTrim ==
    \A p \in Procs :
        (/\ Returned(p, "Put") /\ procs[p].err = Nil /\ procs[p].pre # <<>>
         /\ files[Data(procs[p].id)].mtime
                > files[Index(procs[p].id)].mtime - mtimeInterval) =>
            \A tt \in SoonAfterPut(p) :
                Result(AfterTrim(tt), CallGetFile(procs[p].id), tt).p.err = Nil

\* C39: for every maxBytes and every number of halvings, Trim removes no file
\* whose mtime is within mtimeInterval of the time Trim read when it started:
\* maxAge is never negative, the cutoff now - maxAge - mtimeInterval is never
\* later than now - mtimeInterval, and every file removed had an mtime before
\* now - mtimeInterval, at Trim's stat and when it was removed.
C39_CutoffBound ==
    \A p \in Procs :
        procs[p].op = "Trim" =>
            /\ procs[p].maxAge >= 0
            /\ cutoff(procs[p]) <= procs[p].tnow - mtimeInterval
            /\ \A r \in procs[p].rm :
                  /\ r.stat < procs[p].tnow - mtimeInterval
                  /\ r.mtime < procs[p].tnow - mtimeInterval

\* a Trim(1) has halved maxAge down to 0 and is in a further pass, and the
\* data file of Target, whose mtime is mtimeInterval before the time Trim
\* started, is still there, the cutoff being that mtime
C39_Witness ==
    \E p \in Procs :
        /\ procs[p].op = "Trim" /\ Running(procs[p])
        /\ procs[p].maxBytes > 0 /\ procs[p].maxAge = 0
        /\ files[Data(Hash(Target))].exists
        /\ files[Data(Hash(Target))].mtime = procs[p].tnow - mtimeInterval
        /\ cutoff(procs[p]) = files[Data(Hash(Target))].mtime

----------------------------------------------------------------------------
(* Further properties of the handler.                                       *)

\* the request has called Cache.Put
PutCalled == \E i \in 1..Len(web.log) : web.log[i].call = "CachePut"

\* C34: on the miss path Cache.Put is called only after the producer and the
\* consumer have both returned without an error, the whole body having been
\* written to the response; when a task has returned an error, cancellation
\* included, Cache.Put is not called and the local cache holds what it held.
C34_PutAfterTransfer ==
    /\ (web.op = "GetBlob" /\ (web.pc = "g_put" \/ PutCalled)) =>
          /\ web.prod = "done" /\ web.cons = "done"
          /\ ~web.perr /\ ~web.cerr /\ web.cpErr = ""
          /\ web.out = web.ups[web.id].content
          /\ web.writtenBytes = Len(web.ups[web.id].content)
    /\ (Replied("GetBlob") /\ Fetched /\ (web.perr \/ web.cerr \/ web.cpErr # "")) =>
          /\ ~PutCalled
          /\ web.ret = StatusInternalServerError
          /\ SameContent(files, web.pre)

\* the producer found the context cancelled after the consumer had written
\* the first chunk of the longest blob: GetBlob has returned without a call
\* of Cache.Put, and the cache is empty as before
C34_Witness ==
    /\ Replied("GetBlob") /\ Fetched /\ web.cpErr = ErrCanceled
    /\ web.ups[web.id].content = Long
    /\ web.out # <<>> /\ web.out # Long
    /\ ~PutCalled
    /\ \A nm \in WebNames : ~files[nm].exists

\* C35: every GetBlob that missed the cache and returned nil, whatever the
\* length of the upstream's blob, 0 included, has written the status 200 with
\* Content-Type application/octet-stream exactly once, and no byte of the body
\* went out before it.
C35_HeadersOnce ==
    /\ (Replied("GetBlob") /\ web.ret = 0 /\ Fetched) =>
          /\ web.hdrs = 1
          /\ web.status = StatusOK
          /\ web.ctype = MIMEOctetStream
    /\ (web.op = "GetBlob" /\ web.out # <<>>) => web.hdrs >= 1

\* the same of the blobs that are not empty
HeadersOnceNonEmpty ==
    /\ (Replied("GetBlob") /\ web.ret = 0 /\ Fetched /\ web.ups[web.id].content # <<>>) =>
          /\ web.hdrs = 1
          /\ web.status = StatusOK
          /\ web.ctype = MIMEOctetStream
    /\ (web.op = "GetBlob" /\ web.out # <<>>) => web.hdrs = 1

\* C36: every GetBlob(id) that returned nil with the status 200 has sent a
\* body whose hash is id, and after a GetBlob(id) that missed the cache and
\* returned nil the cache holds a valid entry of id, also when the upstream
\* returns bytes that do not hash to id.
C36_BodyMatchesId ==
    (Replied("GetBlob") /\ web.ret = 0 /\ web.status = StatusOK /\ ~badParam(web.param)) =>
        /\ Hash(web.out) = web.id
        /\ Fetched => Valid(files, web.id) /\ Hash(files[Data(web.id)].content) = web.id

\* the same with an upstream that returns for an ID the blob of that ID
BodyMatchesIdHonest ==
    (/\ Replied("GetBlob") /\ web.ret = 0 /\ web.status = StatusOK /\ ~badParam(web.param)
     /\ Fetched /\ Hash(web.ups[web.id].content) = web.id) =>
        /\ Hash(web.out) = web.id
        /\ Valid(files, web.id) /\ Hash(files[Data(web.id)].content) = web.id

====
